---- MODULE Spec2Model ----
(***************************************************************************)
(* The grid evaluator of orca-rs: the context (grid, locks, variables,     *)
(* notes), the operator registry and library, grid_tick with its two      *)
(* passes, and the note pipeline that runs after every tick; the MIDI      *)
(* thread, the handlers of the main thread, the lock of the context that   *)
(* the three threads share, and the session files.                         *)
(***************************************************************************)
EXTENDS Integers, Sequences, FiniteSets, TLC

VARIABLES
    context,            \* the Context record shared behind the mutex
    config_file,        \* TRUE iff operator_config.txt was readable
    overflow_checks,    \* TRUE: arithmetic overflow panics, FALSE: it wraps
    max_ticks,          \* the number of ticks the run is followed for
    pc,                 \* position of the evaluator thread
    row, col,           \* scan position of the loop that is running
    evaluated,          \* history: <<pass, row, col>> of every evaluate call of this tick
    writes,             \* history: every Context::write of this tick, with its writer
    tick_start,         \* history: grid, locks and variables when grid_tick was entered
    init_grid,          \* history: the grid the context was constructed with
    grid_log,           \* history: the grid at the end of every grid_tick so far
    notes_log,          \* history: the last run of the note pipeline
    midi_note_channel,  \* messages sent on note_senders.midi_note_sender
    synth_note_channel, \* messages sent on note_senders.synth_note_sender
    sampler_note_channel, \* messages sent on note_senders.sampler_note_sender
    midi_cc_channel,    \* messages sent on note_senders.midi_cc_sender
    midi_sink,          \* the MIDI thread: messages received, sends to the connection
    sessions,           \* the directory orca/sessions: its state and the files in it
    mutex,              \* the thread that holds the lock of the context, or "free"
    events,             \* the main thread: the handler it is in and the keys handled
    midi_port_channel,  \* messages sent on midi_port_sender
    midi_cc_sink,       \* the MIDI CC thread: messages received, sends to its connection
    time               \* Instant::now(), next_tick of run_notes, and the time spent Running

vars == <<context, config_file, overflow_checks, max_ticks, time, midi_cc_sink, mutex, events, midi_port_channel, sessions, pc, row, col,
          evaluated, writes, tick_start, init_grid, grid_log, notes_log,
          midi_note_channel, synth_note_channel, sampler_note_channel, midi_cc_channel,
          midi_sink>>

(***************************************************************************)
(* Bounds of the model.                                                    *)
(***************************************************************************)
GridRows == 2
GridCols == 3
MaxTicks == 2
MaxLongTicks == 12
MaxNotes == 2

(***************************************************************************)
(* Characters.  A char is a one-character string; NUL stands for '\0'.     *)
(***************************************************************************)
NUL == "NUL"
Digits == <<"0","1","2","3","4","5","6","7","8","9">>
LowerLetters == <<"a","b","c","d","e","f","g","h","i","j","k","l","m",
                  "n","o","p","q","r","s","t","u","v","w","x","y","z">>
UpperLetters == <<"A","B","C","D","E","F","G","H","I","J","K","L","M",
                  "N","O","P","Q","R","S","T","U","V","W","X","Y","Z">>

Range(s) == {s[i] : i \in DOMAIN s}
IndexOf(s, c) == CHOOSE i \in DOMAIN s : s[i] = c

Max(a, b) == IF a > b THEN a ELSE b
Min(a, b) == IF a < b THEN a ELSE b

\* u8 arithmetic: the value kept in eight bits
U8(x) == x % 256
InU8(x) == x >= 0 /\ x <= 255

\* char::to_ascii_lowercase
to_ascii_lowercase(c) ==
    IF c \in Range(UpperLetters) THEN LowerLetters[IndexOf(UpperLetters, c)] ELSE c

char_to_base_36(c) ==
    IF c \in Range(Digits) THEN <<IndexOf(Digits, c) - 1, FALSE>>
    ELSE IF c \in Range(LowerLetters) THEN <<IndexOf(LowerLetters, c) + 9, FALSE>>
    ELSE IF c \in Range(UpperLetters) THEN <<IndexOf(UpperLetters, c) + 9, TRUE>>
    ELSE <<0, FALSE>>

base_36_to_char(v, upper) ==
    LET c == v % 36 IN
    IF c <= 9 THEN Digits[c + 1]
    ELSE IF upper THEN UpperLetters[c - 9]
    ELSE LowerLetters[c - 9]

(***************************************************************************)
(* Finite maps (HashMap) as functions over their key set.                  *)
(***************************************************************************)
EmptyMap == [k \in {} |-> NUL]
MapInsert(m, k, v) == [x \in DOMAIN m \cup {k} |-> IF x = k THEN v ELSE m[x]]
MapOrInsert(m, k, v) == IF k \in DOMAIN m THEN m ELSE MapInsert(m, k, v)

(***************************************************************************)
(* Context (context.rs).                                                   *)
(***************************************************************************)
Cells(rows, cols) == (0 .. rows - 1) \X (0 .. cols - 1)

Port(r, c, value) == [row |-> r, col |-> c, value |-> value]

Context_new(grid, tempo, divisions, rows, cols) ==
    [ grid |-> grid,
      notes |-> << >>,
      locks |-> {},
      variables |-> EmptyMap,
      ticks |-> 0,
      tempo |-> tempo,
      divisions |-> divisions,
      tick_time |-> 60000 \div (tempo * divisions),
      app_state |-> "Running",
      ports |-> EmptyMap,
      rows |-> rows,
      cols |-> cols,
      global_scale |-> "0",
      global_key |-> "C",
      midi_port |-> 0,
      midi_port_name |-> << >> ]

Context_read(ctx, r, c) ==
    IF r < 0 \/ c < 0 THEN NUL
    ELSE IF <<r, c>> \in DOMAIN ctx.grid THEN ctx.grid[<<r, c>>] ELSE NUL

Context_listen(ctx, r, c, default) ==
    LET value == Context_read(ctx, r, c) IN
    Port(r, c, IF value = "." THEN default ELSE value)

Context_write(ctx, r, c, value) ==
    IF r < 0 \/ c < 0 THEN ctx
    ELSE IF <<r, c>> \in DOMAIN ctx.grid
         THEN [ctx EXCEPT !.grid[<<r, c>>] = value]
         ELSE ctx

Context_write_note(ctx, note) == [ctx EXCEPT !.notes = Append(@, note)]

Context_set_variable(ctx, name, value) ==
    [ctx EXCEPT !.variables = MapInsert(@, name, value)]

Context_read_variable(ctx, name) ==
    IF name \in DOMAIN ctx.variables THEN ctx.variables[name] ELSE "."

\* a clear_all_variables that keeps the map
clear_all_variables_skipped(ctx) == ctx

Context_clear_all_variables(ctx) == [ctx EXCEPT !.variables = EmptyMap]

Context_lock(ctx, r, c) ==
    [ctx EXCEPT !.locks = @ \cup {<<r, c>>},
                !.ports = MapOrInsert(@, <<r, c>>, "Port")]

Context_lock_with_name(ctx, r, c, name) ==
    [ctx EXCEPT !.locks = @ \cup {<<r, c>>},
                !.ports = MapOrInsert(@, <<r, c>>, name)]

Context_is_locked(ctx, r, c) == <<r, c>> \in ctx.locks

\* unlock_all that forgets to replace the set
unlock_all_keeping_locks(ctx) == ctx

Context_unlock_all(ctx) == [ctx EXCEPT !.locks = {}]

(***************************************************************************)
(* Operator configuration (operators.rs, read_operator_config).  A config  *)
(* text is a sequence of lines; a line "<SYMBOL> <Name>" is the pair       *)
(* <<symbol, name>> that split_once(' ') and chars().next() produce.       *)
(***************************************************************************)
default_operator_config ==
    << <<"B", "Sub">>, <<"C", "Clock">>, <<"D", "Delay">>, <<"E", "East">>,
       <<"F", "If">>, <<"G", "Generate">>, <<"H", "Halt">>, <<"I", "Increment">>,
       <<"J", "Jump">>, <<"K", "Concat">>, <<"L", "Lesser">>, <<"M", "Multiply">>,
       <<"N", "North">>, <<"O", "Read">>, <<"P", "Push">>, <<"Q", "Query">>,
       <<"R", "Random">>, <<"S", "South">>, <<"T", "Track">>, <<"U", "Euclid">>,
       <<"V", "Variable">>, <<"W", "West">>, <<"X", "Write">>, <<"Y", "Jymp">>,
       <<"Z", "Interpolate">>, <<"#", "Comment">>, <<"~", "Synth">>, <<":", "Midi">>,
       <<"?", "MidiCC">>, <<";", "Scaler">>, <<">", "Sampler">>, <<"^", "Bernoulli">>,
       <<"A-circumflex", "Turing">>, <<"@", "Globals">>, <<"[", "Saver">>, <<"]", "Loader">>,
       <<"{", "SnipSave">>, <<"}", "SnipLoad">> >>

\* an operator_config.txt a user supplies: the catalogue of the documentation
user_operator_config == << <<"A", "Add">> >> \o default_operator_config

RECURSIVE collect_config(_, _)
collect_config(lines, map) ==
    IF lines = << >> THEN map
    ELSE collect_config(Tail(lines), MapInsert(map, Head(lines)[2], Head(lines)[1]))

\* file_present = FALSE: read_to_string fails and the default text is used
read_operator_config(file_present, file_lines) ==
    collect_config(IF file_present THEN file_lines ELSE default_operator_config, EmptyMap)

(***************************************************************************)
(* Operator registry (get_tick_operators): the operators in the order of   *)
(* the vec, each with the number of input and output labels it declares.   *)
(***************************************************************************)
Op(name, n_in, n_out) == [name |-> name, input_ports |-> n_in, output_ports |-> n_out]

operator_registry ==
    << Op("Globals", 2, 1), Op("SnipSave", 8, 1), Op("SnipLoad", 8, 1),
       Op("Saver", 8, 1), Op("Loader", 8, 1), Op("Add", 2, 1), Op("Sub", 2, 1),
       Op("Clock", 2, 1), Op("Delay", 2, 1), Op("East", 2, 2), Op("If", 2, 1),
       Op("Generate", 20, 18), Op("Halt", 1, 1), Op("Increment", 2, 1),
       Op("Jump", 2, 1), Op("Concat", 4, 13), Op("Lesser", 2, 1),
       Op("Multiply", 2, 1), Op("North", 2, 2), Op("Read", 3, 1),
       Op("Push", 3, 23), Op("Query", 37, 27), Op("Random", 2, 1),
       Op("South", 2, 2), Op("Track", 38, 1), Op("Euclid", 3, 1),
       Op("Variable", 2, 1), Op("West", 2, 2), Op("Write", 3, 1),
       Op("Jymp", 2, 1), Op("Interpolate", 2, 1), Op("Comment", 2, 1),
       Op("Synth", 7, 1), Op("Sampler", 6, 1), Op("Midi", 5, 1),
       Op("MidiCC", 3, 1), Op("Scaler", 5, 1), Op("Bernoulli", 1, 2) >>

\* symbol -> operator; of two operators bound to one symbol the later one stays
get_tick_operators(map) ==
    LET bound == {i \in DOMAIN operator_registry : operator_registry[i].name \in DOMAIN map}
        symbols == {map[operator_registry[i].name] : i \in bound}
        last(s) == CHOOSE i \in bound :
                      /\ map[operator_registry[i].name] = s
                      /\ \A j \in bound : map[operator_registry[j].name] = s => j <= i
    IN [s \in symbols |-> operator_registry[last(s)]]

\* the same operators keyed on the same symbols
get_bang_operators_same_keys(map) == get_tick_operators(map)

\* the same operators keyed on the lower-case symbol
get_bang_operators(map) ==
    LET tick == get_tick_operators(map)
        keys == {to_ascii_lowercase(s) : s \in DOMAIN tick}
    IN [k \in keys |-> tick[CHOOSE s \in DOMAIN tick : to_ascii_lowercase(s) = k]]

(***************************************************************************)
(* Updates (enum Update) and their application (Operator::apply).          *)
(***************************************************************************)
Update(kind, ports, notes, variables, key, scale) ==
    [kind |-> kind, ports |-> ports, notes |-> notes, variables |-> variables,
     global_key |-> key, global_scale |-> scale]

Inputs(ports) == Update("Inputs", ports, << >>, << >>, NUL, NUL)
Outputs(ports) == Update("Outputs", ports, << >>, << >>, NUL, NUL)
Locks(ports) == Update("Locks", ports, << >>, << >>, NUL, NUL)
Notes(notes) == Update("Notes", << >>, notes, << >>, NUL, NUL)
Variables(pairs) == Update("Variables", << >>, << >>, pairs, NUL, NUL)
Globals(key, scale) == Update("Globals", << >>, << >>, << >>, key, scale)
Save(name) == [kind |-> "Save", name |-> name]
Load(name) == [kind |-> "Load", name |-> name]
\* a panic inside evaluate: no update is returned and the thread unwinds
Panic == Update("Panic", << >>, << >>, << >>, NUL, NUL)

\* the state threaded through apply: the context, whether the thread has
\* panicked, the Context::write calls made so far, and the session files
ApplyState(ctx) == [context |-> ctx, panic |-> FALSE, writes |-> << >>, sessions |-> sessions]

RECURSIVE apply_inputs(_, _, _, _)
apply_inputs(st, operator, ports, index) ==
    IF index > Len(ports) \/ st.panic THEN st
    ELSE IF index > operator.input_ports THEN [st EXCEPT !.panic = TRUE]
    ELSE apply_inputs(
            [st EXCEPT !.context = Context_lock_with_name(@, ports[index].row,
                           ports[index].col, <<operator.name, "in", index>>)],
            operator, ports, index + 1)

\* an Outputs arm that writes the cell and leaves it unlocked
apply_output_unlocked(st, operator, port, index) == st

apply_output_lock(st, operator, port, index) ==
    [st EXCEPT !.context = Context_lock_with_name(@, port.row, port.col,
                                                  <<operator.name, "out", index>>)]

RECURSIVE apply_outputs(_, _, _, _)
apply_outputs(st, operator, ports, index) ==
    IF index > Len(ports) \/ st.panic THEN st
    ELSE LET written == [st EXCEPT
                 !.context = Context_write(@, ports[index].row, ports[index].col,
                                           ports[index].value),
                 !.writes = Append(@, ports[index])]
         IN IF index > operator.output_ports THEN [written EXCEPT !.panic = TRUE]
            ELSE apply_outputs(apply_output_lock(written, operator, ports[index], index),
                               operator, ports, index + 1)

RECURSIVE apply_locks(_, _)
apply_locks(st, ports) ==
    IF ports = << >> THEN st
    ELSE apply_locks([st EXCEPT !.context = Context_lock(@, Head(ports).row, Head(ports).col)],
                     Tail(ports))

RECURSIVE apply_notes(_, _)
apply_notes(st, notes) ==
    IF notes = << >> THEN st
    ELSE apply_notes([st EXCEPT !.context = Context_write_note(@, Head(notes))], Tail(notes))

RECURSIVE apply_variables(_, _)
apply_variables(st, pairs) ==
    IF pairs = << >> THEN st
    ELSE apply_variables(
            [st EXCEPT !.context = Context_set_variable(@, Head(pairs)[1], Head(pairs)[2])],
            Tail(pairs))

\* str::trim_matches('.')
trim_matches(name) ==
    LET kept == {i \in 1 .. Len(name) : name[i] # "."}
    IN IF kept = {} THEN << >>
       ELSE SubSeq(name, CHOOSE i \in kept : \A j \in kept : i <= j,
                         CHOOSE i \in kept : \A j \in kept : j <= i)

\* The directory orca/sessions.  dir is "present", "absent" (create_dir_all
\* makes it), "denied" (absent, and it cannot be made), "readonly" (no file
\* in it opens for writing) or "full" (a file opens and the write fails);
\* files maps a file name to the characters in the file, where INVALID_UTF8
\* stands for bytes that are no character.
INVALID_UTF8 == "invalid"
LINE_FEED == "LF"
Buffer == <<"b", "u", "f", "f", "e", "r">>
NoSessions == [dir |-> "absent", files |-> EmptyMap]

\* the rows of the grid written one after the other, "\n" after each
RECURSIVE grid_contents(_, _)
grid_contents(grid, r) ==
    LET width == Cardinality({cell \in DOMAIN grid : cell[1] = r})
    IN IF width = 0 THEN << >>
       ELSE [c \in 1 .. width |-> grid[<<r, c - 1>>]] \o <<LINE_FEED>> \o grid_contents(grid, r + 1)

\* str::lines
RECURSIVE str_lines(_)
str_lines(contents) ==
    IF contents = << >> THEN << >>
    ELSE LET feeds == {i \in 1 .. Len(contents) : contents[i] = LINE_FEED}
             first == IF feeds = {} THEN Len(contents) + 1
                      ELSE CHOOSE i \in feeds : \A j \in feeds : i <= j
         IN <<SubSeq(contents, 1, first - 1)>> \o str_lines(SubSeq(contents, first + 1, Len(contents)))

\* .map(|line| line.chars().collect()).collect()
grid_of_lines(rows) ==
    [cell \in UNION {{<<r, c>> : c \in 0 .. Len(rows[r + 1]) - 1} : r \in 0 .. Len(rows) - 1}
        |-> rows[cell[1] + 1][cell[2] + 1]]

Context_save(st, name) ==
    LET dir == st.sessions.dir
        file_name == trim_matches(name)
        made == IF dir = "absent" THEN "present" ELSE dir
    IN IF dir = "denied" THEN [st EXCEPT !.panic = TRUE]
       ELSE IF dir = "readonly" \/ file_name = << >>
            THEN [st EXCEPT !.panic = TRUE, !.sessions.dir = made]
       ELSE IF dir = "full"
            THEN [st EXCEPT !.panic = TRUE, !.sessions.files = MapInsert(@, file_name, << >>)]
       ELSE [st EXCEPT !.sessions = [dir |-> made,
                                     files |-> MapInsert(@.files, file_name,
                                                         grid_contents(st.context.grid, 0))]]

\* File::open(file_name).unwrap_or(File::open("orca/sessions/buffer").expect(..)):
\* the argument of unwrap_or is evaluated first.  The path of an empty name
\* is the directory, which opens and cannot be read.
Context_load(st, name) ==
    IF name = Buffer THEN st
    ELSE LET files == st.sessions.files
             there == st.sessions.dir \notin {"absent", "denied"}
             file_name == trim_matches(name)
             opened == IF there /\ file_name \in DOMAIN files THEN file_name ELSE Buffer
             is_directory == there /\ file_name = << >>
         IN IF ~(there /\ Buffer \in DOMAIN files) THEN [st EXCEPT !.panic = TRUE]
            ELSE IF is_directory \/ \E i \in DOMAIN files[opened] : files[opened][i] = INVALID_UTF8
                 THEN [st EXCEPT !.panic = TRUE]
            ELSE [st EXCEPT !.context.grid = grid_of_lines(str_lines(files[opened]))]

apply_update(st, operator, update) ==
    CASE update.kind = "Inputs" -> apply_inputs(st, operator, update.ports, 1)
      [] update.kind = "Outputs" -> apply_outputs(st, operator, update.ports, 1)
      [] update.kind = "Locks" -> apply_locks(st, update.ports)
      [] update.kind = "Notes" -> apply_notes(st, update.notes)
      [] update.kind = "Variables" -> apply_variables(st, update.variables)
      [] update.kind = "Globals" ->
            [st EXCEPT !.context.global_key = update.global_key,
                       !.context.global_scale = update.global_scale]
      [] update.kind = "Load" -> Context_load(st, update.name)
      [] update.kind = "Save" -> Context_save(st, update.name)
      [] update.kind = "Panic" -> [st EXCEPT !.panic = TRUE]

RECURSIVE apply_updates(_, _, _)
apply_updates(st, operator, updates) ==
    IF updates = << >> \/ st.panic THEN st
    ELSE apply_updates(apply_update(st, operator, Head(updates)), operator, Tail(updates))

(***************************************************************************)
(* Notes (note_events.rs) and the pitch tables (utils.rs).                 *)
(***************************************************************************)
NATURAL_NOTES == <<9, 11, 0, 2, 4, 5, 7>>
SHARP_NOTES == <<10, 12, 1, 3, 5, 6, 8>>
SCALES ==
    << <<0, 2, 4, 5, 7, 9, 11>>, <<0, 2, 3, 5, 7, 8, 10>>, <<0, 2, 3, 5, 7, 9, 10>>,
       <<0, 1, 3, 5, 7, 8, 10>>, <<0, 2, 4, 6, 7, 9, 11>>, <<0, 2, 4, 5, 7, 9, 10>>,
       <<0, 1, 3, 5, 6, 8, 10>>, <<0, 2, 3, 5, 7, 8, 11>>, <<0, 2, 4, 5, 7, 8, 11>>,
       <<0, 2, 3, 5, 7, 9, 11>>, <<0, 2, 4, 5, 7, 8, 10>>, <<0, 1, 3, 4, 6, 8, 10>>,
       <<0, 2, 3, 6, 7, 9, 10>>, <<0, 2, 3, 6, 7, 8, 11>>, <<0, 1, 3, 5, 7, 8, 11>>,
       <<0, 1, 4, 6, 8, 10, 11>>, <<0, 1, 4, 5, 7, 8, 10>>, <<0, 2, 4, 6, 8, 10, 11>>,
       <<0, 2, 4, 6, 7, 8, 10>>, <<0, 1, 3, 5, 7, 9, 11>>, <<0, 2, 4, 5, 6, 8, 10>>,
       <<0, 1, 3, 6, 7, 8, 11>>, <<0, 1, 4, 6, 7, 8, 11>>, <<0, 1, 4, 6, 7, 9, 11>>,
       <<0, 1, 4, 5, 7, 8, 11>>, <<0, 1, 4, 5, 7, 9, 10>> >>

Note(note_type, channel, engine, sample, slot, note_number, velocity, duration, reverb, degree, speed) ==
    [note_type |-> note_type, channel |-> channel, engine |-> engine,
     sample |-> sample, slot |-> slot, note_number |-> note_number,
     velocity |-> velocity, duration |-> duration, reverb |-> reverb,
     started |-> FALSE, degree |-> degree, speed |-> speed]

\* a velocity passed on without scaling
scale_velocity_unscaled(velocity) == velocity

\* (velocity as f32 * (127.0 / 35.0)) as u8, for velocity in 0..35
scale_velocity(velocity) == (velocity * 127) \div 35

\* The result of a u8 computation: the wrapped value and whether any step
\* left the eight bits.
Checked(value, overflow) == [value |-> value, overflow |-> overflow]

\* Note::from_base_36; overflow is TRUE when a u8 operation overflowed
from_base_36(note_type, channel, engine, sample, slot, base_octave, base_note, sharp, degree, velocity, duration, reverb, tick_time, speed) ==
    LET diff == U8(base_note - 10)
        note_index == diff % 7
        octave_offset == 1 + diff \div 7
        note_offset == IF sharp THEN SHARP_NOTES[note_index + 1]
                       ELSE NATURAL_NOTES[note_index + 1]
        octave == base_octave + octave_offset
        product == 12 * octave
        note_number == U8(product) + note_offset
    IN Checked(Note(note_type, channel, engine, sample, slot, U8(note_number),
                    scale_velocity(velocity), duration * tick_time, reverb, degree, speed),
               ~InU8(base_note - 10) \/ ~InU8(product) \/ ~InU8(note_number))

\* prepare_note with the sharp offsets given to the upper-case keys
prepare_note_upper_sharp(octave, note_upper, degree, scale, octave_offset, note_index) ==
    LET note_offset == IF note_upper THEN SHARP_NOTES[note_index + 1]
                       ELSE NATURAL_NOTES[note_index + 1]
        octave2 == octave + octave_offset
        selected_scale == SCALES[(scale % 26) + 1]
        scale_offset == (IF degree <= 6 THEN 0
                         ELSE IF degree <= 13 THEN 12
                         ELSE IF degree <= 20 THEN 24
                         ELSE IF degree <= 27 THEN 36
                         ELSE IF degree <= 34 THEN 48
                         ELSE 60) + selected_scale[(degree % 7) + 1]
        product == 12 * octave2
        partial == scale_offset + U8(product)
        note_number == U8(partial) + note_offset
    IN Checked(U8(note_number), ~InU8(product) \/ ~InU8(partial) \/ ~InU8(note_number))

prepare_note(octave, note_upper, degree, scale, octave_offset, note_index) ==
    LET note_offset == IF ~note_upper THEN SHARP_NOTES[note_index + 1]
                       ELSE NATURAL_NOTES[note_index + 1]
        octave2 == octave + octave_offset
        selected_scale == SCALES[(scale % 26) + 1]
        scale_offset == (IF degree <= 6 THEN 0
                         ELSE IF degree <= 13 THEN 12
                         ELSE IF degree <= 20 THEN 24
                         ELSE IF degree <= 27 THEN 36
                         ELSE IF degree <= 34 THEN 48
                         ELSE 60) + selected_scale[(degree % 7) + 1]
        product == 12 * octave2
        partial == scale_offset + U8(product)
        note_number == U8(partial) + note_offset
    IN Checked(U8(note_number), ~InU8(product) \/ ~InU8(partial) \/ ~InU8(note_number))

(***************************************************************************)
(* Operator library (operators.rs).  Every evaluator returns the sequence  *)
(* of Updates of the source, in the source's order.                        *)
(***************************************************************************)
Value(c) == char_to_base_36(c)[1]
Upper(c) == char_to_base_36(c)[2]

\* an "on bang" test that also looks east
bang_adjacent_east(ctx, r, c) ==
    \/ Context_read(ctx, r - 1, c) = "*"
    \/ Context_read(ctx, r, c - 1) = "*"
    \/ Context_read(ctx, r + 1, c) = "*"
    \/ Context_read(ctx, r, c + 1) = "*"

\* the "on bang" test every bang-sensitive operator and the second pass make
bang_adjacent(ctx, r, c) ==
    \/ Context_read(ctx, r - 1, c) = "*"
    \/ Context_read(ctx, r, c - 1) = "*"
    \/ Context_read(ctx, r + 1, c) = "*"

\* (0..n).map(f).collect()

global(ctx, r, c) ==
    LET key_port == Context_listen(ctx, r, c + 1, "C")
        scale_port == Context_listen(ctx, r, c + 2, "0")
    IN << Inputs(<<key_port, scale_port>>), Globals(key_port.value, scale_port.value) >>

\* an Add that drops the case of its operands
add_lower_case(ctx, r, c) ==
    LET a_port == Context_listen(ctx, r, c - 1, "0")
        b_port == Context_listen(ctx, r, c + 1, "0")
        out == base_36_to_char(Value(a_port.value) + Value(b_port.value), FALSE)
    IN << Inputs(<<a_port, b_port>>), Outputs(<<Port(r + 1, c, out)>>) >>

add(ctx, r, c) ==
    LET a_port == Context_listen(ctx, r, c - 1, "0")
        b_port == Context_listen(ctx, r, c + 1, "0")
        out == base_36_to_char(Value(a_port.value) + Value(b_port.value),
                               Upper(a_port.value) \/ Upper(b_port.value))
    IN << Inputs(<<a_port, b_port>>), Outputs(<<Port(r + 1, c, out)>>) >>

sub(ctx, r, c) ==
    LET a_port == Context_listen(ctx, r, c - 1, "0")
        b_port == Context_listen(ctx, r, c + 1, "0")
        a == Value(a_port.value)
        b == Value(b_port.value)
        diff == IF a > b THEN a - b ELSE b - a
        out == base_36_to_char(diff, Upper(a_port.value) \/ Upper(b_port.value))
    IN << Inputs(<<a_port, b_port>>), Outputs(<<Port(r + 1, c, out)>>) >>

delay(ctx, r, c) ==
    LET rate_port == Context_listen(ctx, r, c - 1, "1")
        mod_port == Context_listen(ctx, r, c + 1, "8")
        rate == Max(Value(rate_port.value), 1)
        delay_mod == Max(Value(mod_port.value), 1)
        out_port == Context_listen(ctx, r + 1, c, ".")
        out == IF ctx.ticks % (rate * delay_mod) = 0 THEN "*" ELSE out_port.value
    IN << Inputs(<<rate_port, mod_port>>), Outputs(<<Port(r + 1, c, out)>>) >>

\* draw is the value rng.gen_range(min..max) returns
random(ctx, r, c, draw) ==
    LET min_port == Context_listen(ctx, r, c - 1, "0")
        max_port == Context_listen(ctx, r, c + 1, "z")
        out == base_36_to_char(draw, Upper(min_port.value) \/ Upper(max_port.value))
    IN << Inputs(<<min_port, max_port>>), Outputs(<<Port(r + 1, c, out)>>) >>

\* the values gen_range(min..max) can return in random
random_range(ctx, r, c) ==
    LET min == Value(Context_listen(ctx, r, c - 1, "0").value)
        max == Max(Value(Context_listen(ctx, r, c + 1, "z").value), min + 1)
    IN min .. (max - 1)

scaler(ctx, r, c, checks) ==
    LET channel_port == Context_listen(ctx, r, c + 1, "0")
        octave_port == Context_listen(ctx, r, c + 2, "2")
        degree_port == Context_listen(ctx, r, c + 3, "0")
        velocity_port == Context_listen(ctx, r, c + 4, "u")
        duration_port == Context_listen(ctx, r, c + 5, "2")
        note == Value(ctx.global_key)
        note_upper == Upper(ctx.global_key)
        degree == Value(degree_port.value)
        diff == U8(note - 10)
        note_index == diff % 7
        octave_offset == 1 + diff \div 7
        note_number == prepare_note(Value(octave_port.value), note_upper, degree,
                                    Value(ctx.global_scale), octave_offset, note_index)
        midi_notes == IF bang_adjacent(ctx, r, c)
                      THEN << Note(0, Value(channel_port.value), 0, 0, 0, note_number.value,
                                   scale_velocity(Value(velocity_port.value)),
                                   Value(duration_port.value) * ctx.tick_time, 0, degree, 0) >>
                      ELSE << >>
    IN IF checks /\ (~InU8(note - 10) \/ note_number.overflow) THEN << Panic >>
       ELSE << Inputs(<<channel_port, octave_port, degree_port, velocity_port, duration_port>>),
               Notes(midi_notes) >>

midi_note(ctx, r, c, checks) ==
    LET channel_port == Context_listen(ctx, r, c + 1, "0")
        octave_port == Context_listen(ctx, r, c + 2, "2")
        note_port == Context_listen(ctx, r, c + 3, "C")
        velocity_port == Context_listen(ctx, r, c + 4, "u")
        duration_port == Context_listen(ctx, r, c + 5, "1")
        note == Value(note_port.value)
        emits == note >= 10 /\ bang_adjacent(ctx, r, c)
        made == from_base_36(0, Value(channel_port.value), 0, 0, 0,
                             Value(octave_port.value), note, ~Upper(note_port.value), 0,
                             Value(velocity_port.value), Value(duration_port.value), 0,
                             ctx.tick_time, 0)
    IN IF emits /\ checks /\ made.overflow THEN << Panic >>
       ELSE << Inputs(<<channel_port, octave_port, note_port, velocity_port, duration_port>>),
               Notes(IF emits THEN << made.value >> ELSE << >>) >>

midi_cc(ctx, r, c) ==
    LET channel_port == Context_listen(ctx, r, c + 1, "0")
        command_port == Context_listen(ctx, r, c + 2, "0")
        value_port == Context_listen(ctx, r, c + 3, "0")
        channel == Value(channel_port.value) + 176
        midi_cc_notes == IF bang_adjacent(ctx, r, c)
                         THEN << Note(3, channel, 0, 0, 0, 0, Value(value_port.value), 1, 0,
                                      Value(command_port.value), 0) >>
                         ELSE << >>
    IN << Inputs(<<channel_port, command_port, value_port>>), Notes(midi_cc_notes) >>

synth(ctx, r, c, checks) ==
    LET engine_port == Context_listen(ctx, r, c + 1, "0")
        octave_port == Context_listen(ctx, r, c + 2, "2")
        degree_port == Context_listen(ctx, r, c + 3, "0")
        velocity_port == Context_listen(ctx, r, c + 4, "9")
        duration_port == Context_listen(ctx, r, c + 5, "2")
        reverb_port == Context_listen(ctx, r, c + 6, "0")
        fm_port == Context_listen(ctx, r, c + 7, "1")
        note == Value(ctx.global_key)
        note_upper == Upper(ctx.global_key)
        degree == Value(degree_port.value)
        diff == U8(note - 10)
        note_index == diff % 7
        octave_offset == 1 + diff \div 7
        note_number == prepare_note(Value(octave_port.value), note_upper, degree,
                                    Value(ctx.global_scale), octave_offset, note_index)
        midi_notes == IF bang_adjacent(ctx, r, c)
                      THEN << Note(1, 0, Value(engine_port.value), 0, 0, note_number.value,
                                   scale_velocity(Value(velocity_port.value)),
                                   Value(duration_port.value) * ctx.tick_time,
                                   Value(reverb_port.value), degree, Value(fm_port.value)) >>
                      ELSE << >>
    IN IF checks /\ (~InU8(note - 10) \/ note_number.overflow) THEN << Panic >>
       ELSE << Inputs(<<engine_port, octave_port, degree_port, velocity_port,
                        duration_port, reverb_port, fm_port>>),
               Notes(midi_notes) >>

sampler(ctx, r, c, checks) ==
    LET slot_port == Context_listen(ctx, r, c + 1, "0")
        sample_port == Context_listen(ctx, r, c + 2, "0")
        velocity_port == Context_listen(ctx, r, c + 3, "9")
        duration_port == Context_listen(ctx, r, c + 4, "4")
        reverb_port == Context_listen(ctx, r, c + 5, "0")
        speed_port == Context_listen(ctx, r, c + 6, "1")
        slot == Value(slot_port.value)
        emits == bang_adjacent(ctx, r, c)
        made == from_base_36(2, 0, 0, Value(sample_port.value), slot % 4, 0, slot, FALSE, 0,
                             Value(velocity_port.value), Value(duration_port.value),
                             Value(reverb_port.value), ctx.tick_time, Value(speed_port.value))
    IN IF emits /\ checks /\ made.overflow THEN << Panic >>
       ELSE << Inputs(<<slot_port, sample_port, velocity_port, duration_port,
                        reverb_port, speed_port>>),
               Notes(IF emits THEN << made.value >> ELSE << >>) >>

\* a clock that reads the counter as if the tick were already counted
clock_after_increment(ctx, r, c) ==
    LET rate_port == Context_listen(ctx, r, c - 1, "1")
        mod_port == Context_listen(ctx, r, c + 1, "8")
        rate == Max(Value(rate_port.value), 1)
        clock_mod == Max(Value(mod_port.value), 1)
        out == ((ctx.ticks + 1) \div rate) % clock_mod
    IN << Inputs(<<rate_port, mod_port>>),
          Outputs(<<Port(r + 1, c, base_36_to_char(U8(out), Upper(mod_port.value)))>>) >>

clock(ctx, r, c) ==
    LET rate_port == Context_listen(ctx, r, c - 1, "1")
        mod_port == Context_listen(ctx, r, c + 1, "8")
        rate == Max(Value(rate_port.value), 1)
        clock_mod == Max(Value(mod_port.value), 1)
        out == (ctx.ticks \div rate) % clock_mod
    IN << Inputs(<<rate_port, mod_port>>),
          Outputs(<<Port(r + 1, c, base_36_to_char(U8(out), Upper(mod_port.value)))>>) >>

track(ctx, r, c) ==
    LET key_port == Context_listen(ctx, r, c - 2, "0")
        len_port == Context_listen(ctx, r, c - 1, "1")
        key == Value(key_port.value)
        len == Max(Value(len_port.value), 1)
        val_port == Context_listen(ctx, r, c + 1 + (key % len), NUL)
        locks == [k \in 1 .. len |-> LET i == k - 1 IN Port(r, c + 1 + i, NUL)]
    IN << Inputs(<<key_port, len_port, val_port>>),
          Outputs(<<Port(r + 1, c, val_port.value)>>),
          Locks(locks) >>

halt(ctx, r, c) ==
    LET output_port == Context_listen(ctx, r + 1, c, NUL)
    IN << Inputs(<<output_port>>), Outputs(<<output_port>>), Locks(<<output_port>>) >>

\* a mover that copies itself to the neighbour and stays where it was
mover_copying(ctx, r, c, edge, r2, c2) ==
    LET input_port == Context_listen(ctx, r, c, ".")
        output_port == Context_listen(ctx, r2, c2, ".")
    IN IF edge THEN << Outputs(<<Port(r, c, "*")>>) >>
       ELSE IF output_port.value = "."
       THEN << Outputs(<<Port(r2, c2, input_port.value)>>),
               Locks(<<Port(r2, c2, input_port.value)>>) >>
       ELSE << Outputs(<<Port(r, c, "*")>>) >>

\* the body shared by east, west, north and south: edge is the test for the
\* grid border, (r2, c2) the neighbour in the direction of travel
mover(ctx, r, c, edge, r2, c2) ==
    LET input_port == Context_listen(ctx, r, c, ".")
        output_port == Context_listen(ctx, r2, c2, ".")
    IN IF edge THEN << Outputs(<<Port(r, c, "*")>>) >>
       ELSE IF output_port.value = "."
       THEN << Outputs(<<Port(r, c, "."), Port(r2, c2, input_port.value)>>),
               Locks(<<Port(r2, c2, input_port.value)>>) >>
       ELSE << Outputs(<<Port(r, c, "*")>>) >>

east(ctx, r, c) == mover(ctx, r, c, c + 1 >= ctx.cols, r, c + 1)
west(ctx, r, c) == mover(ctx, r, c, c - 1 < 0, r, c - 1)
north(ctx, r, c) == mover(ctx, r, c, r - 1 < 0, r - 1, c)
south(ctx, r, c) == mover(ctx, r, c, r + 1 >= ctx.rows, r + 1, c)

condition(ctx, r, c) ==
    LET a_port == Context_listen(ctx, r, c - 1, NUL)
        b_port == Context_listen(ctx, r, c + 1, NUL)
        out_port == Context_listen(ctx, r + 1, c, NUL)
        out == IF Value(a_port.value) = Value(b_port.value) THEN "*" ELSE out_port.value
    IN << Inputs(<<a_port, b_port>>), Outputs(<<Port(r + 1, c, out)>>) >>

increment(ctx, r, c) ==
    LET step_port == Context_listen(ctx, r, c - 1, "1")
        mod_port == Context_listen(ctx, r, c + 1, "z")
        increment_mod == Max(Value(mod_port.value), 1)
        out_port == Context_listen(ctx, r + 1, c, "0")
        out == (Value(out_port.value) + Value(step_port.value)) % increment_mod
    IN << Inputs(<<step_port, mod_port>>),
          Outputs(<<Port(r + 1, c, base_36_to_char(out, Upper(mod_port.value)))>>) >>

jump(ctx, r, c) ==
    LET input_port == Context_listen(ctx, r - 1, c, NUL)
    IN << Inputs(<<input_port>>), Outputs(<<Port(r + 1, c, input_port.value)>>) >>

jymp(ctx, r, c) ==
    LET input_port == Context_listen(ctx, r, c - 1, NUL)
    IN << Inputs(<<input_port>>), Outputs(<<Port(r, c + 1, input_port.value)>>) >>

lesser(ctx, r, c) ==
    LET a_port == Context_listen(ctx, r, c - 1, NUL)
        b_port == Context_listen(ctx, r, c + 1, NUL)
        out == IF a_port.value # NUL /\ b_port.value # NUL
               THEN base_36_to_char(Min(Value(a_port.value), Value(b_port.value)),
                                    Upper(a_port.value) \/ Upper(b_port.value))
               ELSE NUL
    IN << Inputs(<<a_port, b_port>>), Outputs(<<Port(r + 1, c, out)>>) >>

multiply(ctx, r, c) ==
    LET a_port == Context_listen(ctx, r, c - 1, "0")
        b_port == Context_listen(ctx, r, c + 1, "0")
        product == Min(Value(a_port.value) * Value(b_port.value), 255)
        out == base_36_to_char(product, Upper(a_port.value) \/ Upper(b_port.value))
    IN << Inputs(<<a_port, b_port>>), Outputs(<<Port(r + 1, c, out)>>) >>

read(ctx, r, c) ==
    LET x_port == Context_listen(ctx, r, c - 2, "0")
        y_port == Context_listen(ctx, r, c - 1, "0")
        val_port == Context_listen(ctx, r + Value(y_port.value),
                                   c + 1 + Value(x_port.value), NUL)
    IN << Inputs(<<x_port, y_port, val_port>>),
          Outputs(<<Port(r + 1, c, val_port.value)>>) >>

push(ctx, r, c) ==
    LET key_port == Context_listen(ctx, r, c - 2, "0")
        len_port == Context_listen(ctx, r, c - 1, "1")
        key == Value(key_port.value)
        len == Max(Value(len_port.value), 1)
        val_port == Context_listen(ctx, r, c + 1, NUL)
        locks == [k \in 1 .. len |-> LET i == k - 1 IN Port(r + 1, c + i, NUL)]
    IN << Inputs(<<key_port, len_port, val_port>>),
          Outputs(<<Port(r + 1, c + (key % len), val_port.value)>>),
          Locks(locks) >>

query(ctx, r, c) ==
    LET x_port == Context_listen(ctx, r, c - 3, "0")
        y_port == Context_listen(ctx, r, c - 2, "0")
        len_port == Context_listen(ctx, r, c - 1, "1")
        x == Value(x_port.value)
        y == Value(y_port.value)
        len == Max(Value(len_port.value), 1)
        input_ports == [k \in 1 .. len |-> LET i == k - 1 IN Context_listen(ctx, r + y, c + 1 + x + i, NUL)]
        output_ports == [k \in 1 .. len |-> LET i == k - 1 IN Port(r + 1, c + 1 + i - len,
                                                     input_ports[i + 1].value)]
    IN << Inputs(input_ports \o <<x_port, y_port>>), Outputs(output_ports) >>

generate(ctx, r, c) ==
    LET len_port == Context_listen(ctx, r, c - 1, "1")
        y_port == Context_listen(ctx, r, c - 2, "0")
        x_port == Context_listen(ctx, r, c - 3, "0")
        x == Value(x_port.value)
        y == Value(y_port.value)
        len == Max(Value(len_port.value), 1)
        input_ports == [k \in 1 .. len |-> LET i == k - 1 IN Context_listen(ctx, r, c + 1 + i, NUL)]
        output_ports == [k \in 1 .. len |-> LET i == k - 1 IN Port(r + 1 + y, c + i + x,
                                                     input_ports[i + 1].value)]
    IN << Inputs(input_ports \o <<x_port, y_port>>), Outputs(output_ports) >>

write(ctx, r, c) ==
    LET x_port == Context_listen(ctx, r, c - 2, "0")
        y_port == Context_listen(ctx, r, c - 1, "0")
        val_port == Context_listen(ctx, r, c + 1, NUL)
    IN << Inputs(<<x_port, y_port, val_port>>),
          Outputs(<<Port(r + 1 + Value(y_port.value), c + Value(x_port.value),
                         val_port.value)>>) >>

interpolate(ctx, r, c) ==
    LET rate_port == Context_listen(ctx, r, c - 1, "1")
        target_port == Context_listen(ctx, r, c + 1, "z")
        out_port == Context_listen(ctx, r + 1, c, "0")
        out == Min(Value(out_port.value) + Value(rate_port.value), Value(target_port.value))
    IN << Inputs(<<rate_port, target_port>>),
          Outputs(<<Port(r + 1, c, base_36_to_char(out, Upper(target_port.value)))>>) >>

\* a Euclid whose comparison admits one step too many
euclid_inclusive(ctx, r, c) ==
    LET step_port == Context_listen(ctx, r, c - 1, "1")
        max_port == Context_listen(ctx, r, c + 1, "8")
        offset_port == Context_listen(ctx, r, c + 2, "0")
        step == Value(step_port.value)
        max == Max(Value(max_port.value), 1)
        offset == Value(offset_port.value)
        out_port == Context_listen(ctx, r + 1, c, NUL)
        out == IF (step * (ctx.ticks + offset)) % max <= step THEN "*" ELSE out_port.value
    IN << Inputs(<<step_port, max_port, offset_port>>),
          Outputs(<<Port(r + 1, c, out)>>) >>

euclid(ctx, r, c) ==
    LET step_port == Context_listen(ctx, r, c - 1, "1")
        max_port == Context_listen(ctx, r, c + 1, "8")
        offset_port == Context_listen(ctx, r, c + 2, "0")
        step == Value(step_port.value)
        max == Max(Value(max_port.value), 1)
        offset == Value(offset_port.value)
        out_port == Context_listen(ctx, r + 1, c, NUL)
        out == IF (step * (ctx.ticks + offset)) % max < step THEN "*" ELSE out_port.value
    IN << Inputs(<<step_port, max_port, offset_port>>),
          Outputs(<<Port(r + 1, c, out)>>) >>

\* the column the for loop of comment stops at
comment_end(ctx, r, c) ==
    LET width == ctx.cols
        hashes == {i \in (c + 1) .. (width - 1) : Context_read(ctx, r, i) = "#"}
    IN IF c + 1 >= width THEN c + 1
       ELSE IF hashes = {} THEN width - 1
       ELSE CHOOSE i \in hashes : \A j \in hashes : i <= j

\* a comment that locks its own cell only
comment_locking_itself(ctx, r, c) == << Locks(<<Port(r, c, NUL)>>) >>

comment(ctx, r, c) ==
    LET last == comment_end(ctx, r, c)
    IN << Locks([k \in 1 .. last + 1 - c |-> LET i == k - 1 IN Port(r, c + i, NUL)]) >>

variable(ctx, r, c) ==
    LET write_port == Context_listen(ctx, r, c - 1, ".")
        read_port == Context_listen(ctx, r, c + 1, ".")
    IN IF write_port.value = "."
       THEN << Inputs(<<write_port, read_port>>),
               Outputs(<<Port(r + 1, c, Context_read_variable(ctx, read_port.value))>>) >>
       ELSE << Inputs(<<read_port>>),
               Variables(<< <<write_port.value, read_port.value>> >>) >>

\* draw is the value d.sample(&mut thread_rng()) returns
bernoulli(ctx, r, c, draw) ==
    LET propability_port == Context_listen(ctx, r, c + 1, "2")
        probability == Value(propability_port.value)
        zero == Context_listen(ctx, r + 1, c, NUL)
        one == Context_listen(ctx, r + 2, c, NUL)
        banged == bang_adjacent(ctx, r, c)
        one_value == IF banged /\ draw /\ zero.value = NUL THEN "*" ELSE one.value
        zero_value == IF banged /\ one_value = NUL THEN "*" ELSE zero.value
    IN IF probability > 10 THEN << Panic >>
       ELSE << Inputs(<<propability_port>>),
               Outputs(<<Port(r + 1, c, zero_value), Port(r + 2, c, one_value)>>) >>

\* the values Bernoulli::new(probability / 10).sample can return
bernoulli_range(ctx, r, c) ==
    LET probability == Value(Context_listen(ctx, r, c + 1, "2").value)
    IN IF probability = 0 THEN {FALSE}
       ELSE IF probability >= 10 THEN {TRUE}
       ELSE BOOLEAN

concat(ctx, r, c) ==
    LET len_port == Context_listen(ctx, r, c - 1, "1")
        len == Value(len_port.value)
        output_ports == [k \in 1 .. len |-> LET i == k - 1 IN
                            Port(r + 1, c + i + 1,
                                 Context_read_variable(ctx, Context_read(ctx, r, c + i + 1)))]
        locks == [k \in 1 .. len |-> LET i == k - 1 IN Port(r, c + 1 + i, NUL)]
    IN << Inputs(<<len_port>>), Outputs(output_ports), Locks(locks) >>

\* the eight ports east of a Saver or Loader
key_ports(ctx, r, c) == [k \in 1 .. 8 |-> Context_listen(ctx, r, c + k, ".")]

saver(ctx, r, c) ==
    LET ports == key_ports(ctx, r, c)
        alphanumeric == {Digits[i] : i \in DOMAIN Digits}
                           \cup {LowerLetters[i] : i \in DOMAIN LowerLetters}
                           \cup {UpperLetters[i] : i \in DOMAIN UpperLetters}
                           \cup {"A-circumflex"}
        name == SelectSeq([k \in 1 .. 8 |-> ports[k].value], LAMBDA a : a \in alphanumeric)
        locks == [k \in 1 .. 8 |-> Port(r, c + k, NUL)]
        output == IF bang_adjacent(ctx, r, c) THEN name ELSE Buffer
    IN << Inputs(ports), Locks(locks), Save(trim_matches(output)) >>

loader(ctx, r, c) ==
    LET ports == key_ports(ctx, r, c)
        name == [k \in 1 .. 8 |-> ports[k].value]
        locks == [k \in 1 .. 8 |-> Port(r, c + k, NUL)]
        output == IF bang_adjacent(ctx, r, c) THEN trim_matches(name) ELSE Buffer
    IN << Inputs(ports), Locks(locks), Load(output) >>

(***************************************************************************)
(* Dispatch through the fn pointer of an Operator, and Operator::apply.    *)
(***************************************************************************)
evaluate(name, ctx, r, c, draw, checks) ==
    CASE name = "Globals" -> global(ctx, r, c)
      [] name = "Add" -> add(ctx, r, c)
      [] name = "Sub" -> sub(ctx, r, c)
      [] name = "Clock" -> clock(ctx, r, c)
      [] name = "Delay" -> delay(ctx, r, c)
      [] name = "East" -> east(ctx, r, c)
      [] name = "If" -> condition(ctx, r, c)
      [] name = "Generate" -> generate(ctx, r, c)
      [] name = "Halt" -> halt(ctx, r, c)
      [] name = "Increment" -> increment(ctx, r, c)
      [] name = "Jump" -> jump(ctx, r, c)
      [] name = "Concat" -> concat(ctx, r, c)
      [] name = "Lesser" -> lesser(ctx, r, c)
      [] name = "Multiply" -> multiply(ctx, r, c)
      [] name = "North" -> north(ctx, r, c)
      [] name = "Read" -> read(ctx, r, c)
      [] name = "Push" -> push(ctx, r, c)
      [] name = "Query" -> query(ctx, r, c)
      [] name = "Random" -> random(ctx, r, c, draw)
      [] name = "South" -> south(ctx, r, c)
      [] name = "Track" -> track(ctx, r, c)
      [] name = "Euclid" -> euclid(ctx, r, c)
      [] name = "Variable" -> variable(ctx, r, c)
      [] name = "West" -> west(ctx, r, c)
      [] name = "Write" -> write(ctx, r, c)
      [] name = "Jymp" -> jymp(ctx, r, c)
      [] name = "Interpolate" -> interpolate(ctx, r, c)
      [] name = "Comment" -> comment(ctx, r, c)
      [] name = "Synth" -> synth(ctx, r, c, checks)
      [] name = "Sampler" -> sampler(ctx, r, c, checks)
      [] name = "Midi" -> midi_note(ctx, r, c, checks)
      [] name = "MidiCC" -> midi_cc(ctx, r, c)
      [] name = "Scaler" -> scaler(ctx, r, c, checks)
      [] name = "Bernoulli" -> bernoulli(ctx, r, c, draw)
      [] name = "Saver" -> saver(ctx, r, c)
      [] name = "Loader" -> loader(ctx, r, c)

\* what thread_rng can hand to the operator evaluated at (r, c)
thread_rng(name, ctx, r, c) ==
    CASE name = "Random" -> random_range(ctx, r, c)
      [] name = "Bernoulli" -> bernoulli_range(ctx, r, c)
      [] OTHER -> {FALSE}

\* apply without the test of the operator's own lock
apply_ignoring_lock(operator, ctx, r, c, draw, checks) ==
    apply_updates(ApplyState(ctx), operator,
                  evaluate(operator.name, ctx, r, c, draw, checks))

apply(operator, ctx, r, c, draw, checks) ==
    IF ~Context_is_locked(ctx, r, c)
    THEN apply_updates(ApplyState(ctx), operator,
                       evaluate(operator.name, ctx, r, c, draw, checks))
    ELSE ApplyState(ctx)

(***************************************************************************)
(* The note pipeline (note_events.rs).                                     *)
(***************************************************************************)
\* a subtraction that takes one more than it is asked to
saturating_sub_one_more(a, b) == IF a > b + 1 THEN a - b - 1 ELSE 0

saturating_sub(a, b) == IF a > b THEN a - b ELSE 0

RECURSIVE notes_tick_set(_, _, _)
RECURSIVE notes_tick_set_decrementing_all(_, _, _)
\* a loop that decrements the un-started notes as well
notes_tick_set_decrementing_all(notes, tick_time, note_set) ==
    IF notes = << >> THEN note_set
    ELSE LET note == Head(notes)
             key == <<note.channel, note.note_number>>
             duration == saturating_sub(note.duration, tick_time)
         IN IF note.started /\ key \in DOMAIN note_set /\ note_set[key].duration >= duration
            THEN notes_tick_set_decrementing_all(Tail(notes), tick_time, note_set)
            ELSE notes_tick_set_decrementing_all(Tail(notes), tick_time,
                     MapInsert(note_set, key, [note EXCEPT !.duration = duration]))

notes_tick_set(notes, tick_time, note_set) ==
    IF notes = << >> THEN note_set
    ELSE LET note == Head(notes)
             key == <<note.channel, note.note_number>>
             duration == saturating_sub(note.duration, tick_time)
         IN IF note.started
            THEN IF key \in DOMAIN note_set /\ note_set[key].duration >= duration
                 THEN notes_tick_set(Tail(notes), tick_time, note_set)
                 ELSE notes_tick_set(Tail(notes), tick_time,
                          MapInsert(note_set, key, [note EXCEPT !.duration = duration]))
            ELSE notes_tick_set(Tail(notes), tick_time, MapInsert(note_set, key, note))

\* the orders in which HashMap::values can yield the entries of a map
Orders(map) ==
    {s \in [1 .. Cardinality(DOMAIN map) -> DOMAIN map] :
        \A i, j \in DOMAIN s : i # j => s[i] # s[j]}

\* a notes_tick that keeps the first note of every key
notes_tick_first_kept(notes, tick_time) ==
    LET first == {i \in DOMAIN notes : \A j \in 1 .. i - 1 :
                     <<notes[j].channel, notes[j].note_number>>
                        # <<notes[i].channel, notes[i].note_number>>}
        note_set == [i \in first |->
                        IF notes[i].started
                        THEN [notes[i] EXCEPT !.duration = saturating_sub(@, tick_time)]
                        ELSE notes[i]]
    IN {[i \in DOMAIN order |-> note_set[order[i]]] : order \in Orders(note_set)}

\* notes_tick returns the values of the map in one of these orders
notes_tick(notes, tick_time) ==
    LET note_set == notes_tick_set(notes, tick_time, EmptyMap)
    IN {[i \in DOMAIN order |-> note_set[order[i]]] : order \in Orders(note_set)}

\* the state of the loop of process_and_send_notes
SendState(midi, synth_ch, sampler_ch, cc) ==
    [processed |-> << >>,
     midi_notes_to_play |-> << >>, midi_cc_to_play |-> << >>,
     sampler_notes_to_play |-> << >>, synth_notes_to_play |-> << >>,
     midi_note_channel |-> midi, synth_note_channel |-> synth_ch,
     sampler_note_channel |-> sampler_ch, midi_cc_channel |-> cc]

\* a send_note that sends nothing and leaves the started flag as it is
send_note_skipped(st, note) == [st EXCEPT !.processed = Append(@, note)]

send_note(st, note) ==
    LET started == [note EXCEPT !.started = TRUE] IN
    CASE note.note_type = 0 ->
            [st EXCEPT !.midi_notes_to_play = Append(@, note),
                       !.midi_note_channel = Append(@, Append(st.midi_notes_to_play, note)),
                       !.processed = Append(@, started)]
      [] note.note_type = 1 /\ ~note.started ->
            [st EXCEPT !.synth_notes_to_play = Append(@, note),
                       !.synth_note_channel = Append(@, Append(st.synth_notes_to_play, note)),
                       !.processed = Append(@, started)]
      [] note.note_type = 2 /\ ~note.started ->
            [st EXCEPT !.sampler_notes_to_play = Append(@, note),
                       !.sampler_note_channel = Append(@, Append(st.sampler_notes_to_play, note)),
                       !.processed = Append(@, started)]
      [] note.note_type = 3 ->
            [st EXCEPT !.midi_cc_to_play = Append(@, note),
                       !.midi_cc_channel = Append(@, Append(st.midi_cc_to_play, note)),
                       !.processed = Append(@, started)]
      [] OTHER -> [st EXCEPT !.processed = Append(@, note)]

RECURSIVE send_notes(_, _)
send_notes(st, notes) ==
    IF notes = << >> THEN st ELSE send_notes(send_note(st, Head(notes)), Tail(notes))

\* a process_and_send_notes that retains the notes that have run out
process_and_send_notes_unfiltered(processed_notes, st) == send_notes(st, processed_notes)

\* process_and_send_notes for one order of the processed notes
process_and_send_notes(processed_notes, st) ==
    LET sent == send_notes(st, processed_notes)
    IN [sent EXCEPT !.processed = SelectSeq(@, LAMBDA note : note.duration > 0)]

(***************************************************************************)
(* The evaluator thread (run_notes): grid_tick, then the note pipeline.    *)
(***************************************************************************)
\* the tables run_notes builds once, before the loop, from the config it read
DefaultOperatorMap == read_operator_config(FALSE, user_operator_config)
UserOperatorMap == read_operator_config(TRUE, user_operator_config)
DefaultTickOperators == get_tick_operators(DefaultOperatorMap)
UserTickOperators == get_tick_operators(UserOperatorMap)
DefaultBangOperators == get_bang_operators(DefaultOperatorMap)
UserBangOperators == get_bang_operators(UserOperatorMap)

operator_map == IF config_file THEN UserOperatorMap ELSE DefaultOperatorMap
tick_operators == IF config_file THEN UserTickOperators ELSE DefaultTickOperators
bang_operators == IF config_file THEN UserBangOperators ELSE DefaultBangOperators

\* "for row in 0..rows { for col in 0..cols": the position after (row, col)
LastCell == row = context.rows - 1 /\ col = context.cols - 1
NextRow == IF col = context.cols - 1 THEN row + 1 ELSE row
NextCol == IF col = context.cols - 1 THEN 0 ELSE col + 1

\* a grid_tick that leaves the previous bangs in place
clear_bangs_skipped(ctx) == ctx

\* "clear previous bangs": every '*' within rows x cols becomes '.'
clear_bangs(ctx) ==
    [ctx EXCEPT !.grid =
        [cell \in DOMAIN ctx.grid |->
            IF cell \in Cells(ctx.rows, ctx.cols) /\ ctx.grid[cell] = "*"
            THEN "." ELSE ctx.grid[cell]]]

\* the history entries of one apply
Evaluations(pass, locked) == IF locked THEN << >> ELSE << <<pass, row, col>> >>
WritesBy(pass, ports) ==
    [i \in DOMAIN ports |-> [row |-> ports[i].row, col |-> ports[i].col,
                             value |-> ports[i].value, by |-> <<pass, row, col>>]]

\* a run_notes that enters grid_tick whatever the state is
GridTickStart_in_any_state ==
    /\ pc = "idle"
    /\ events.at # "exited"
    /\ time.now >= time.next_tick
    /\ mutex = "free"
    /\ mutex' = "notes"
    /\ context.ticks < max_ticks
    /\ context' = clear_bangs(Context_clear_all_variables(Context_unlock_all(context)))
    /\ pc' = "tick_operators"
    /\ row' = 0
    /\ col' = 0
    /\ evaluated' = << >>
    /\ writes' = << >>
    /\ tick_start' = [grid |-> context.grid, locks |-> context.locks,
                      variables |-> context.variables, notes |-> context.notes]
    /\ UNCHANGED <<config_file, overflow_checks, max_ticks, time, midi_cc_sink, events, midi_port_channel,
                   sessions, grid_log, notes_log, init_grid,
                   midi_note_channel, synth_note_channel, sampler_note_channel,
                   midi_cc_channel, midi_sink>>

\* run_notes finds the state Running and enters grid_tick: unlock_all,
\* clear_all_variables and the loop that clears the previous bangs
GridTickStart ==
    /\ pc = "idle"
    /\ events.at # "exited"
    /\ time.now >= time.next_tick
    /\ mutex = "free"
    /\ mutex' = "notes"
    /\ context.app_state = "Running"
    /\ context.ticks < max_ticks
    /\ context' = clear_bangs(Context_clear_all_variables(Context_unlock_all(context)))
    /\ pc' = "tick_operators"
    /\ row' = 0
    /\ col' = 0
    /\ evaluated' = << >>
    /\ writes' = << >>
    /\ tick_start' = [grid |-> context.grid, locks |-> context.locks,
                      variables |-> context.variables, notes |-> context.notes]
    /\ UNCHANGED <<config_file, overflow_checks, max_ticks, time, midi_cc_sink, events, midi_port_channel,
                   sessions, grid_log, notes_log, init_grid,
                   midi_note_channel, synth_note_channel, sampler_note_channel,
                   midi_cc_channel, midi_sink>>

\* one iteration of the first loop: the tick operator at (row, col), if any
TickOperators ==
    /\ pc = "tick_operators"
    /\ LET ch == Context_read(context, row, col) IN
       IF ch \in DOMAIN tick_operators
       THEN \E draw \in thread_rng(tick_operators[ch].name, context, row, col) :
               LET st == apply(tick_operators[ch], context, row, col, draw, overflow_checks)
               IN /\ context' = st.context
                  /\ sessions' = st.sessions
                  /\ mutex' = IF st.panic THEN "free" ELSE mutex
                  /\ evaluated' = evaluated \o
                         Evaluations(1, Context_is_locked(context, row, col))
                  /\ writes' = writes \o WritesBy(1, st.writes)
                  /\ pc' = IF st.panic THEN "panicked"
                           ELSE IF LastCell THEN "bang_operators" ELSE pc
                  /\ row' = IF st.panic THEN row ELSE IF LastCell THEN 0 ELSE NextRow
                  /\ col' = IF st.panic THEN col ELSE IF LastCell THEN 0 ELSE NextCol
       ELSE /\ UNCHANGED <<context, sessions, mutex, evaluated, writes>>
            /\ pc' = IF LastCell THEN "bang_operators" ELSE pc
            /\ row' = IF LastCell THEN 0 ELSE NextRow
            /\ col' = IF LastCell THEN 0 ELSE NextCol
    /\ UNCHANGED <<config_file, overflow_checks, max_ticks, time, midi_cc_sink, events, midi_port_channel,
                   grid_log, notes_log, tick_start, init_grid,
                   midi_note_channel, synth_note_channel, sampler_note_channel,
                   midi_cc_channel, midi_sink>>

\* one iteration of the second loop: the bang operator at (row, col), if it
\* has a bang to its north, west or south
BangOperators ==
    /\ pc = "bang_operators"
    /\ LET ch == Context_read(context, row, col) IN
       IF ch \in DOMAIN bang_operators /\ bang_adjacent(context, row, col)
       THEN \E draw \in thread_rng(bang_operators[ch].name, context, row, col) :
               LET st == apply(bang_operators[ch], context, row, col, draw, overflow_checks)
               IN /\ context' = st.context
                  /\ sessions' = st.sessions
                  /\ mutex' = IF st.panic THEN "free" ELSE mutex
                  /\ evaluated' = evaluated \o
                         Evaluations(2, Context_is_locked(context, row, col))
                  /\ writes' = writes \o WritesBy(2, st.writes)
                  /\ pc' = IF st.panic THEN "panicked"
                           ELSE IF LastCell THEN "tick_end" ELSE pc
                  /\ row' = IF st.panic THEN row ELSE IF LastCell THEN 0 ELSE NextRow
                  /\ col' = IF st.panic THEN col ELSE IF LastCell THEN 0 ELSE NextCol
       ELSE /\ UNCHANGED <<context, sessions, mutex, evaluated, writes>>
            /\ pc' = IF LastCell THEN "tick_end" ELSE pc
            /\ row' = IF LastCell THEN 0 ELSE NextRow
            /\ col' = IF LastCell THEN 0 ELSE NextCol
    /\ UNCHANGED <<config_file, overflow_checks, max_ticks, time, midi_cc_sink, events, midi_port_channel,
                   grid_log, notes_log, tick_start, init_grid,
                   midi_note_channel, synth_note_channel, sampler_note_channel,
                   midi_cc_channel, midi_sink>>

\* context.ticks += 1, and grid_tick returns
GridTickEnd ==
    /\ pc = "tick_end"
    /\ context' = [context EXCEPT !.ticks = @ + 1]
    /\ grid_log' = Append(grid_log, context.grid)
    /\ pc' = "notes"
    /\ UNCHANGED <<config_file, overflow_checks, max_ticks, time, midi_cc_sink, mutex, events,
                   midi_port_channel, sessions, row, col, evaluated,
                   writes, tick_start, init_grid, notes_log, midi_note_channel,
                   synth_note_channel, sampler_note_channel, midi_cc_channel, midi_sink>>

\* the messages a run of the loop added to a channel
SentSince(before, after) == SubSeq(after, Len(before) + 1, Len(after))

\* the history entry of one run of the pipeline: the buffer it was given, the
\* notes notes_tick returned, the messages sent to each sink and the tick_time
PipelineRun(midi_notes, processed_notes, st) ==
    [midi_notes |-> midi_notes,
     processed_notes |-> processed_notes,
     tick_time |-> context.tick_time,
     midi_note_sender |-> SentSince(midi_note_channel, st.midi_note_channel),
     synth_note_sender |-> SentSince(synth_note_channel, st.synth_note_channel),
     sampler_note_sender |-> SentSince(sampler_note_channel, st.sampler_note_channel),
     midi_cc_sender |-> SentSince(midi_cc_channel, st.midi_cc_channel)]

\* no run of the pipeline yet
NoPipelineRun ==
    [midi_notes |-> << >>, processed_notes |-> << >>, tick_time |-> 0,
     midi_note_sender |-> << >>, synth_note_sender |-> << >>,
     sampler_note_sender |-> << >>, midi_cc_sender |-> << >>]

\* Duration::from_secs_f64(60.0 / (divisions * tempo) as f64), in microseconds
tick_duration(ctx) == 60000000 \div (ctx.divisions * ctx.tempo)

\* context.notes = process_and_send_notes(...), where every message to the
\* MIDI sink is followed by one that carries context.midi_port
ProcessAndSendNotes ==
    /\ pc = "notes"
    /\ \E processed_notes \in notes_tick(context.notes, context.tick_time) :
          LET st == process_and_send_notes(processed_notes,
                        SendState(midi_note_channel, synth_note_channel,
                                  sampler_note_channel, midi_cc_channel))
          IN /\ context' = [context EXCEPT !.notes = st.processed]
             /\ midi_note_channel' = st.midi_note_channel
             /\ synth_note_channel' = st.synth_note_channel
             /\ sampler_note_channel' = st.sampler_note_channel
             /\ midi_cc_channel' = st.midi_cc_channel
             /\ midi_port_channel' = midi_port_channel \o
                    [i \in DOMAIN SentSince(midi_note_channel, st.midi_note_channel)
                        |-> context.midi_port]
             /\ notes_log' = PipelineRun(context.notes, processed_notes, st)
    /\ time' = [time EXCEPT !.next_tick = @ + tick_duration(context)]
    /\ pc' = "drop"
    /\ UNCHANGED <<config_file, overflow_checks, max_ticks, midi_cc_sink, mutex, events, sessions, grid_log,
                   row, col, evaluated,
                   writes, tick_start, init_grid, midi_sink>>

\* drop(context_locked), after a tick or without one
RunNotesDrop ==
    /\ pc = "drop"
    /\ pc' = "idle"
    /\ mutex' = "free"
    /\ UNCHANGED <<context, config_file, overflow_checks, max_ticks, time, midi_cc_sink, events, midi_port_channel,
                   sessions, row, col, evaluated, writes, tick_start, init_grid, grid_log,
                   notes_log, midi_note_channel, synth_note_channel, sampler_note_channel,
                   midi_cc_channel, midi_sink>>

(***************************************************************************)
(* The MIDI thread (run_midi): its loop takes one message from the channel *)
(* and processes the notes of it.                                          *)
(***************************************************************************)
NOTE_ON_MESSAGE == 144
NOTE_OFF_MESSAGE == 128

\* the bytes Note::start and Note::stop pass to conn.send
Note_start(note) == <<NOTE_ON_MESSAGE + note.channel, note.note_number, note.velocity>>
Note_stop(note) == <<NOTE_OFF_MESSAGE + note.channel, note.note_number, note.velocity>>

\* a loop body that stops and starts every note that has not run out
run_midi_note_restarting(note) ==
    IF note.started /\ note.duration = 0 THEN <<Note_stop(note)>>
    ELSE <<Note_stop(note), Note_start(note)>>

\* the body of "for note in notes.iter_mut()": the sends it makes for a note
run_midi_note(note) ==
    IF note.started /\ note.duration = 0 THEN <<Note_stop(note)>>
    ELSE IF ~note.started THEN <<Note_stop(note), Note_start(note)>>
    ELSE << >>

\* the MIDI thread at the top of its loop, before its first message: it has
\* connected to port 0 and written the name of that port to the context;
\* conn holds the messages sent to the connection since the loop was entered
NoMidiReceived ==
    [received |-> 0, conn |-> << >>, handled |-> << >>, pc |-> "port", default_midi_port |-> 0]

RECURSIVE run_midi_notes(_, _)
run_midi_notes(sink, notes) ==
    IF notes = << >> THEN sink
    ELSE run_midi_notes(
             [sink EXCEPT !.conn = @ \o run_midi_note(Head(notes)),
                          !.handled = Append(@, [note |-> Head(notes),
                                                 sent |-> run_midi_note(Head(notes))])],
             Tail(notes))

MIDI_CHANNEL_COUNT == 16
MIDI_NOTE_COUNT == 128

\* the ports midi_out.ports() lists
MidiPorts == 2
port_name(index) == <<"port", index>>

\* "set the new midi port if changed": midi_port_receiver.recv() and, for a
\* port other than the one connected, the update of midi_port_name under
\* the lock of the context
RunMidiPort ==
    /\ midi_sink.pc = "port"
    /\ events.at # "exited"
    /\ midi_sink.received < Len(midi_port_channel)
    /\ LET requested_midi_port == midi_port_channel[midi_sink.received + 1] IN
       IF requested_midi_port # midi_sink.default_midi_port
       THEN /\ mutex = "free"
            /\ context' = [context EXCEPT
                              !.midi_port_name = port_name(requested_midi_port % MidiPorts)]
            /\ midi_sink' = [midi_sink EXCEPT !.pc = "notes",
                                              !.default_midi_port = requested_midi_port]
       ELSE /\ midi_sink' = [midi_sink EXCEPT !.pc = "notes"]
            /\ UNCHANGED context
    /\ UNCHANGED <<config_file, overflow_checks, max_ticks, time, midi_cc_sink, mutex, events,
                   midi_port_channel, sessions, pc, row, col,
                   evaluated, writes, tick_start, init_grid, grid_log, notes_log,
                   midi_note_channel, synth_note_channel, sampler_note_channel,
                   midi_cc_channel>>

\* "process notes": midi_note_receiver.recv() and the loop over the notes
\* received
RunMidi ==
    /\ midi_sink.pc = "notes"
    /\ events.at # "exited"
    /\ midi_sink.received < Len(midi_note_channel)
    /\ midi_sink' = run_midi_notes([midi_sink EXCEPT !.received = @ + 1, !.pc = "shutdown"],
                                   midi_note_channel[midi_sink.received + 1])
    /\ UNCHANGED <<context, config_file, overflow_checks, max_ticks, time, midi_cc_sink, mutex, events,
                   midi_port_channel, sessions, pc, row, col,
                   evaluated, writes, tick_start, init_grid, grid_log, notes_log,
                   midi_note_channel, synth_note_channel, sampler_note_channel,
                   midi_cc_channel>>

\* the note-off messages of every channel and pitch, channel by channel
all_notes_off ==
    [i \in 1 .. MIDI_CHANNEL_COUNT * MIDI_NOTE_COUNT |->
        <<NOTE_OFF_MESSAGE + (i - 1) \div MIDI_NOTE_COUNT, (i - 1) % MIDI_NOTE_COUNT, 0>>]

\* "clear all midi notes on shutdown": the read of app_state under the lock
\* and, in the state Shutdown, the note-off messages
RunMidiShutdown ==
    /\ midi_sink.pc = "shutdown"
    /\ events.at # "exited"
    /\ mutex = "free"
    /\ midi_sink' = [midi_sink EXCEPT
                        !.pc = "port",
                        !.conn = IF context.app_state = "Shutdown" THEN @ \o all_notes_off
                                 ELSE @]
    /\ UNCHANGED <<context, config_file, overflow_checks, max_ticks, time, midi_cc_sink, mutex, events,
                   midi_port_channel, sessions, pc, row, col,
                   evaluated, writes, tick_start, init_grid, grid_log, notes_log,
                   midi_note_channel, synth_note_channel, sampler_note_channel,
                   midi_cc_channel>>

(***************************************************************************)
(* The MIDI CC thread (run_midi_cc).                                       *)
(***************************************************************************)
\* (2^(input / 36) * 127) as u8, computed in f32, for input in 0..35
scale_exponential(input) ==
    <<127, 129, 131, 134, 137, 139, 142, 145, 148, 151, 153, 156,
      160, 163, 166, 169, 172, 176, 179, 183, 186, 190, 193, 197,
      201, 205, 209, 213, 217, 221, 226, 230, 235, 239, 244, 249>>[input + 1]

\* the thread before its first message; conn holds the messages its
\* connection has accepted
NoMidiCCReceived == [received |-> 0, conn |-> << >>, handled |-> << >>, pc |-> "recv"]

\* a status byte followed by two data bytes
is_midi_message(message) == message[1] >= 128 /\ message[2] < 128 /\ message[3] < 128

\* conn.send(message): a message that is no MIDI message is sent as it is or
\* refused with an Err, as the backend of the connection decides
conn_send(sink, message, accepts) ==
    IF is_midi_message(message) \/ accepts THEN [sink EXCEPT !.conn = Append(@, message)]
    ELSE sink

\* the body of "for note in notes.iter_mut()" of run_midi_cc: the status
\* bytes of Note::stop and Note::start are u8 sums, and the result of the
\* third send is unwrapped
run_midi_cc_note(sink, note, checks, accepts) ==
    LET off == NOTE_OFF_MESSAGE + note.channel
        on == NOTE_ON_MESSAGE + note.channel
        control == <<note.channel, note.degree, scale_exponential(note.velocity)>>
        panicked == [sink EXCEPT !.pc = "panicked"]
        stopped == IF checks /\ ~InU8(off) THEN panicked
                   ELSE conn_send(sink, <<U8(off), note.note_number, note.velocity>>, accepts)
        started == IF stopped.pc = "panicked" THEN stopped
                   ELSE IF checks /\ ~InU8(on) THEN [stopped EXCEPT !.pc = "panicked"]
                   ELSE conn_send(stopped, <<U8(on), note.note_number, note.velocity>>, accepts)
    IN IF note.started /\ note.duration = 0 THEN stopped
       ELSE IF ~note.started
            THEN IF started.pc = "panicked" THEN started
                 ELSE IF is_midi_message(control) \/ accepts
                      THEN [started EXCEPT !.conn = Append(@, control)]
                 ELSE [started EXCEPT !.pc = "panicked"]
       ELSE sink

RECURSIVE run_midi_cc_notes(_, _, _, _)
run_midi_cc_notes(sink, notes, checks, accepts) ==
    IF notes = << >> \/ sink.pc = "panicked" THEN sink
    ELSE run_midi_cc_notes(
             run_midi_cc_note([sink EXCEPT !.handled = Append(@, Head(notes))],
                              Head(notes), checks, accepts),
             Tail(notes), checks, accepts)

\* one iteration of the loop of run_midi_cc: recv, then the notes of the message
RunMidiCC ==
    /\ midi_cc_sink.pc = "recv"
    /\ events.at # "exited"
    /\ midi_cc_sink.received < Len(midi_cc_channel)
    /\ \E accepts \in BOOLEAN :
          midi_cc_sink' = run_midi_cc_notes([midi_cc_sink EXCEPT !.received = @ + 1],
                                            midi_cc_channel[midi_cc_sink.received + 1],
                                            overflow_checks, accepts)
    /\ UNCHANGED <<context, config_file, overflow_checks, max_ticks, time, mutex, events,
                   midi_port_channel, sessions, pc, row, col,
                   evaluated, writes, tick_start, init_grid, grid_log, notes_log,
                   midi_note_channel, synth_note_channel, sampler_note_channel,
                   midi_cc_channel, midi_sink>>

Next ==
    \/ GridTickStart
    \/ TickOperators
    \/ BangOperators
    \/ GridTickEnd
    \/ ProcessAndSendNotes
    \/ RunNotesDrop

\* the evaluator thread and the MIDI CC thread
NextWithMidiCC == Next \/ RunMidiCC

\* the evaluator thread and the MIDI thread
NextWithMidi == Next \/ RunMidiPort \/ RunMidi \/ RunMidiShutdown

(***************************************************************************)
(* The evaluator thread outside the state Running, and the main thread     *)
(* (handle_events) with the handlers that lock the context.                *)
(***************************************************************************)
MaxKeys == 2

\* run_notes locks the context and finds a state other than Running
RunNotesLock ==
    /\ pc = "idle"
    /\ events.at # "exited"
    /\ time.now >= time.next_tick
    /\ mutex = "free"
    /\ context.app_state # "Running"
    /\ pc' = "drop"
    /\ mutex' = "notes"
    /\ UNCHANGED <<context, config_file, overflow_checks, max_ticks, time, midi_cc_sink, events, midi_port_channel,
                   sessions, row, col, evaluated, writes, tick_start, init_grid, grid_log,
                   notes_log, midi_note_channel, synth_note_channel, sampler_note_channel,
                   midi_cc_channel, midi_sink>>

tempo_up(ctx) == [ctx EXCEPT !.tempo = @ + 1]
tempo_down(ctx) == IF ctx.tempo > 1 THEN [ctx EXCEPT !.tempo = @ - 1] ELSE ctx
pause(ctx) ==
    [ctx EXCEPT !.app_state = IF @ = "Running" THEN "Paused" ELSE "Running"]
change_midi_port(ctx) == [ctx EXCEPT !.midi_port = @ + 1]
clear_grid(ctx, rows, cols) == [ctx EXCEPT !.grid = [cell \in Cells(rows, cols) |-> "."]]
\* input_char and backspace in the mode Normal
input_char(ctx, c, cursor) == [ctx EXCEPT !.grid[cursor] = c]
backspace(ctx, cursor) == [ctx EXCEPT !.grid[cursor] = "."]

\* the handlers that lock the context for as long as they run
Handlers ==
    {"tempo_up", "tempo_down", "pause", "change_midi_port", "clear_grid", "input_char",
     "backspace"}

\* the characters typed and the places of the cursor followed
TypedChars == {"E"}
CursorCells == {<<0, 0>>, <<0, 1>>}

\* a handler that does not wait for the lock of the context
HandlerLock_without_waiting ==
    /\ events.at = "poll"
    /\ events.keys < MaxKeys
    /\ \E handler \in Handlers, c \in TypedChars, cursor \in CursorCells :
          events' = [at |-> handler, keys |-> events.keys + 1,
                     c |-> IF handler = "input_char" THEN c ELSE NUL,
                     cursor |-> IF handler \in {"input_char", "backspace"} THEN cursor
                                ELSE <<0, 0>>]
    /\ mutex' = "events"
    /\ UNCHANGED <<context, config_file, overflow_checks, max_ticks, time, midi_cc_sink, midi_port_channel,
                   sessions, pc, row, col, evaluated, writes, tick_start, init_grid, grid_log,
                   notes_log, midi_note_channel, synth_note_channel, sampler_note_channel,
                   midi_cc_channel, midi_sink>>

\* handle_events reads a key and the handler of the key locks the context;
\* the arrow keys pressed before that have put the cursor somewhere
HandlerLock ==
    /\ events.at = "poll"
    /\ events.keys < MaxKeys
    /\ mutex = "free"
    /\ \E handler \in Handlers, c \in TypedChars, cursor \in CursorCells :
          events' = [at |-> handler, keys |-> events.keys + 1,
                     c |-> IF handler = "input_char" THEN c ELSE NUL,
                     cursor |-> IF handler \in {"input_char", "backspace"} THEN cursor
                                ELSE <<0, 0>>]
    /\ mutex' = "events"
    /\ UNCHANGED <<context, config_file, overflow_checks, max_ticks, time, midi_cc_sink, midi_port_channel,
                   sessions, pc, row, col, evaluated, writes, tick_start, init_grid, grid_log,
                   notes_log, midi_note_channel, synth_note_channel, sampler_note_channel,
                   midi_cc_channel, midi_sink>>

\* the body of the handler, and the drop of the lock when it returns
HandlerReturn ==
    /\ events.at \in Handlers
    /\ context' =
          CASE events.at = "tempo_up" -> tempo_up(context)
            [] events.at = "tempo_down" -> tempo_down(context)
            [] events.at = "pause" -> pause(context)
            [] events.at = "change_midi_port" -> change_midi_port(context)
            [] events.at = "clear_grid" -> clear_grid(context, context.rows, context.cols)
            [] events.at = "input_char" -> input_char(context, events.c, events.cursor)
            [] events.at = "backspace" -> backspace(context, events.cursor)
    /\ events' = [events EXCEPT !.at = "poll"]
    /\ mutex' = "free"
    /\ UNCHANGED <<config_file, overflow_checks, max_ticks, time, midi_cc_sink, midi_port_channel,
                   sessions, pc, row, col, evaluated, writes, tick_start, init_grid, grid_log,
                   notes_log, midi_note_channel, synth_note_channel, sampler_note_channel,
                   midi_cc_channel, midi_sink>>

\* quit: the grid, cloned under the lock, is written to last_session as
\* Context::save writes a session, and process::exit ends every thread
LastSession == <<"l", "a", "s", "t", "_", "s", "e", "s", "s", "i", "o", "n">>
quit ==
    /\ events.at = "poll"
    /\ events.keys < MaxKeys
    /\ mutex = "free"
    /\ LET st == Context_save(ApplyState(context), LastSession)
       IN /\ sessions' = st.sessions
          /\ events' = [events EXCEPT !.at = IF st.panic THEN "panicked" ELSE "exited",
                                      !.keys = @ + 1]
    /\ UNCHANGED <<context, config_file, overflow_checks, max_ticks, time, midi_cc_sink, mutex, midi_port_channel,
                   pc, row, col, evaluated, writes, tick_start, init_grid, grid_log,
                   notes_log, midi_note_channel, synth_note_channel, sampler_note_channel,
                   midi_cc_channel, midi_sink>>

NextThreads ==
    \/ GridTickStart
    \/ TickOperators
    \/ BangOperators
    \/ GridTickEnd
    \/ ProcessAndSendNotes
    \/ RunNotesDrop
    \/ RunNotesLock
    \/ RunMidiPort
    \/ RunMidi
    \/ RunMidiShutdown
    \/ HandlerLock
    \/ HandlerReturn
    \/ quit

(***************************************************************************)
(* Initial states: the context Context::new builds around a grid of the    *)
(* given dimensions, and the operator tables run_notes reads.              *)
(***************************************************************************)
DefaultTempo == 120
DefaultDivisions == 4

(***************************************************************************)
(* Time: Instant::now() read by run_notes, in microseconds.                *)
(***************************************************************************)
MaxClock == 3

\* the time followed: MaxClock tick durations of the default tempo
TimeStep == 60000000 \div (DefaultDivisions * DefaultTempo)

\* time passes, whatever the threads are doing
TimePasses ==
    /\ time.now < MaxClock * TimeStep
    /\ events.at # "exited"
    /\ time' = [time EXCEPT !.now = @ + TimeStep,
                              !.running = IF context.app_state = "Running"
                                          THEN @ + TimeStep ELSE @]
    /\ UNCHANGED <<context, config_file, overflow_checks, max_ticks, midi_cc_sink, mutex,
                   events, midi_port_channel, sessions, pc, row, col,
                   evaluated, writes, tick_start, init_grid, grid_log, notes_log,
                   midi_note_channel, synth_note_channel, sampler_note_channel,
                   midi_cc_channel, midi_sink>>

\* the evaluator thread and the main thread, in time
NextPacing ==
    \/ GridTickStart
    \/ TickOperators
    \/ BangOperators
    \/ GridTickEnd
    \/ ProcessAndSendNotes
    \/ RunNotesDrop
    \/ RunNotesLock
    \/ HandlerLock
    \/ HandlerReturn
    \/ TimePasses

\* the characters placed on the grids of Spec
Alphabet == {"*", "1", "b", "e", "A", "B", "C", "D", "E", "N", "S", "V", "Y", "H", "J",
             ":", "#", "^"}

EmptyGrid(rows, cols) == [cell \in Cells(rows, cols) |-> "."]

\* every grid holding at most two characters of the alphabet
Grids(rows, cols) ==
    {[[EmptyGrid(rows, cols) EXCEPT ![p] = x] EXCEPT ![q] = y] :
        p \in Cells(rows, cols), q \in Cells(rows, cols),
        x \in Alphabet \cup {"."}, y \in Alphabet}

\* the main thread between two events, with no key handled yet
NoEvents == [at |-> "poll", keys |-> 0, c |-> NUL, cursor |-> <<0, 0>>]

\* the clock when the thread of run_notes starts: next_tick = Instant::now()
ClockStart == [now |-> 0, next_tick |-> 0, running |-> 0]

\* the clock of a run whose ticks are not followed in time: the thread is a
\* minute behind next_tick, so that no tick of the run waits
LateClock == [now |-> 60000000, next_tick |-> 0, running |-> 60000000]

InitWithClock(grid, rows, cols, file_present, checks, dir, start) ==
    /\ time = start
    /\ sessions = dir
    /\ mutex = "free"
    /\ events = NoEvents
    /\ midi_port_channel = << >>
    /\ context = [Context_new(grid, DefaultTempo, DefaultDivisions, rows, cols)
                     EXCEPT !.midi_port_name = port_name(0)]
    /\ config_file = file_present
    /\ overflow_checks = checks
    /\ pc = "idle"
    /\ row = 0
    /\ col = 0
    /\ evaluated = << >>
    /\ writes = << >>
    /\ tick_start = [grid |-> grid, locks |-> {}, variables |-> EmptyMap, notes |-> << >>]
    /\ init_grid = grid
    /\ grid_log = << >>
    /\ notes_log = NoPipelineRun
    /\ midi_note_channel = << >>
    /\ synth_note_channel = << >>
    /\ sampler_note_channel = << >>
    /\ midi_cc_channel = << >>
    /\ midi_sink = NoMidiReceived
    /\ midi_cc_sink = NoMidiCCReceived

InitWithSessions(grid, rows, cols, file_present, checks, dir) ==
    InitWithClock(grid, rows, cols, file_present, checks, dir, LateClock)

InitWith(grid, rows, cols, file_present, checks) ==
    InitWithSessions(grid, rows, cols, file_present, checks, NoSessions)

Init ==
    \E grid \in Grids(GridRows, GridCols), file_present \in BOOLEAN, checks \in BOOLEAN :
        InitWith(grid, GridRows, GridCols, file_present, checks) /\ max_ticks = MaxTicks

Spec == Init /\ [][Next]_vars

\* the grid whose rows are the given sequences of characters
GridOf(lines) ==
    [cell \in Cells(Len(lines), Len(lines[1])) |-> lines[cell[1] + 1][cell[2] + 1]]

InitGrids(grids) ==
    \E grid \in grids, file_present \in BOOLEAN, checks \in BOOLEAN :
        LET rows == Cardinality({cell[1] : cell \in DOMAIN grid})
            cols == Cardinality({cell[2] : cell \in DOMAIN grid})
        IN InitWith(grid, rows, cols, file_present, checks) /\ max_ticks = MaxTicks

\* Scenario S5: '*:03C4f' on row 3, alone or with one Delay above it
S5Grid ==
    GridOf(<< <<".", ".", ".", ".", ".", ".", ".">>,
              <<".", ".", ".", ".", ".", ".", ".">>,
              <<".", ".", ".", ".", ".", ".", ".">>,
              <<"*", ":", "0", "3", "C", "4", "f">> >>)

S5Grids ==
    {S5Grid} \cup {[S5Grid EXCEPT ![cell] = "D"] : cell \in {c \in DOMAIN S5Grid : c[1] < 3}}

InitS5 == InitGrids(S5Grids)
SpecS5 == InitS5 /\ [][Next]_vars

\* Grids without a Random or Bernoulli symbol on which a bang-Sub computes
\* one: 'b' between '8' and 'z' below a Delay, and a North beside the result
GeneratedRandomGrids ==
    {GridOf(<< <<".", "D", ".">>,
               <<".", ".", ".">>,
               <<"8", "b", "z">>,
               <<n3, ".", ".">>,
               <<n4, ".", ".">> >>) : n3 \in {".", "N"}, n4 \in {".", "N"}}

InitGenerated == InitGrids(GeneratedRandomGrids)
SpecGenerated == InitGenerated /\ [][Next]_vars

\* Scenario S1 for all operands: 'a A b' on row 0 with 'A' bound to Add
Base36Chars == Range(Digits) \cup Range(LowerLetters) \cup Range(UpperLetters)

AddGrids ==
    {GridOf(<< <<a, "A", b>>, <<".", ".", ".">> >>) :
        a \in Base36Chars \cup {"."}, b \in Base36Chars \cup {"."}}

InitAdd ==
    \E grid \in AddGrids, checks \in BOOLEAN :
        InitWith(grid, 2, 3, TRUE, checks) /\ max_ticks = MaxTicks
SpecAdd == InitAdd /\ [][Next]_vars

\* Scenario S3 and its variants: '*E......', and every 3 x 3 grid holding one
\* mover and at most one other character
S3Grid == GridOf(<< <<"*", "E", ".", ".", ".", ".", ".", ".">> >>)

MoverGrids ==
    {S3Grid} \cup
    {[[EmptyGrid(3, 3) EXCEPT ![q] = x] EXCEPT ![p] = m] :
        p \in Cells(3, 3), q \in Cells(3, 3),
        m \in {"E", "W", "N", "S"}, x \in {".", "*", "1", "B", "E", "W", "N", "S"}}

InitMovers == InitGrids(MoverGrids)
SpecMovers == InitMovers /\ [][Next]_vars

\* runs followed for MaxLongTicks ticks
InitLongRun(grids) ==
    \E grid \in grids, file_present \in BOOLEAN, checks \in BOOLEAN :
        LET rows == Cardinality({cell[1] : cell \in DOMAIN grid})
            cols == Cardinality({cell[2] : cell \in DOMAIN grid})
        IN InitWith(grid, rows, cols, file_present, checks) /\ max_ticks = MaxLongTicks

\* Scenario S2 and its variants: 'rCm' on row 0 for several rates and moduli
S2Grid == GridOf(<< <<"1", "C", "8">>, <<".", ".", ".">> >>)

ClockGrids ==
    {GridOf(<< <<r, "C", mod>>, <<".", ".", ".">> >>) :
        r \in {".", "0", "1", "2", "3", "a"}, mod \in {".", "0", "1", "3", "8", "c", "C", "Z"}}

InitClock == InitLongRun(ClockGrids)
SpecClock == InitClock /\ [][Next]_vars

\* Scenario S4 and its variants: 'dUl' on row 0 with rotation 0 or none
EuclidGrid(density, length, rotation) ==
    GridOf(<< <<density, "U", length, rotation>>, <<".", ".", ".", ".">> >>)

EuclidGrids ==
    {EuclidGrid(density, length, rotation) :
        density \in {".", "0", "1", "2", "3", "5", "8"},
        length \in {".", "0", "1", "2", "3", "4", "6", "8", "c"},
        rotation \in {".", "0"}}

InitEuclid == InitLongRun(EuclidGrids)
SpecEuclid == InitEuclid /\ [][Next]_vars

\* Scenario S6 and its variants: a writer before a reader, a reader before a
\* writer, the cells of S6 as written, and a bang-Variable writer that runs
\* in the first tick only before a bang-Variable reader that runs every tick
WriterFirstGrid ==
    GridOf(<< <<"a", "V", "1", ".", "V", "a">>, <<".", ".", ".", ".", ".", ".">> >>)

ReaderFirstGrid ==
    GridOf(<< <<".", "V", "a", "a", "V", "1">>, <<".", ".", ".", ".", ".", ".">> >>)

S6Grid ==
    GridOf(<< <<"V", "a", "1", "V", ".", "a">>, <<".", ".", ".", ".", ".", ".">> >>)

WriterOnceGrid ==
    GridOf(<< <<".", "D", ".", ".", "1", "D", "1">>,
              <<".", ".", ".", ".", ".", ".", ".">>,
              <<"a", "v", "1", ".", ".", "v", "a">>,
              <<".", ".", ".", ".", ".", ".", ".">> >>)

VariableGrids == {WriterFirstGrid, ReaderFirstGrid, S6Grid, WriterOnceGrid}

InitVariable == InitGrids(VariableGrids)
SpecVariable == InitVariable /\ [][Next]_vars

\* The note pipeline as a function of the buffer it is given: run_notes
\* stands between grid_tick and process_and_send_notes with a buffer of at
\* most MaxNotes notes and a tick_time of 0 or of Context::new
NoteOf(note_type, channel, duration, started) ==
    [Note(note_type, channel, 0, 0, 0, 60, 100, duration, 0, 0, 0)
        EXCEPT !.started = started]

\* notes of every type on channel 0 and MIDI notes on channel 1
NotePool ==
    {NoteOf(pair[1], pair[2], duration, started) :
        pair \in ((0 .. 3) \X {0}) \cup {<<0, 1>>},
        duration \in {0, 125, 375}, started \in BOOLEAN}

NoteBuffers == UNION {[1 .. n -> NotePool] : n \in 0 .. MaxNotes}

InitBuffers(buffers) ==
    \E notes \in buffers, tick_time \in {0, 60000 \div (DefaultTempo * DefaultDivisions)} :
        /\ context = [Context_new(EmptyGrid(1, 1), DefaultTempo, DefaultDivisions, 1, 1)
                         EXCEPT !.notes = notes, !.tick_time = tick_time,
                                !.midi_port_name = port_name(0)]
        /\ config_file = FALSE
        /\ overflow_checks = TRUE
        /\ max_ticks = MaxTicks
        /\ sessions = NoSessions
        /\ mutex = "notes"
        /\ events = NoEvents
        /\ midi_port_channel = << >>
        /\ pc = "notes"
        /\ row = 0
        /\ col = 0
        /\ evaluated = << >>
        /\ writes = << >>
        /\ tick_start = [grid |-> EmptyGrid(1, 1), locks |-> {}, variables |-> EmptyMap,
                         notes |-> notes]
        /\ init_grid = EmptyGrid(1, 1)
        /\ grid_log = << >>
        /\ notes_log = NoPipelineRun
        /\ midi_note_channel = << >>
        /\ synth_note_channel = << >>
        /\ sampler_note_channel = << >>
        /\ midi_cc_channel = << >>
        /\ midi_sink = NoMidiReceived
        /\ midi_cc_sink = NoMidiCCReceived
        /\ time = LateClock

InitNotes == InitBuffers(NoteBuffers)
SpecNotes == InitNotes /\ [][Next]_vars

\* The evaluator thread and the MIDI thread together: scenario S5 with a
\* Delay banging the ':', and the buffers of at most MaxNotes MIDI notes
S5DelayGrid == [S5Grid EXCEPT ![<<1, 1>>] = "D"]

MidiBuffers ==
    {notes \in NoteBuffers : \A i \in DOMAIN notes : notes[i].note_type = 0}

InitMidi == InitGrids({S5DelayGrid}) \/ InitBuffers(MidiBuffers)
SpecMidi == InitMidi /\ [][NextWithMidi]_vars

\* Delay with several rates and moduli, above a cell that is empty, holds a
\* bang or holds a digit; and a Delay whose output cell an East reaches
DelayEastGrid ==
    GridOf(<< <<".", ".", "D", ".">>, <<"E", ".", ".", ".">> >>)

DelayGrids ==
    {GridOf(<< <<r, "D", mod>>, <<".", below, ".">> >>) :
        r \in {".", "0", "1", "2"}, mod \in {".", "1", "2", "3"}, below \in {".", "*", "1"}}
    \cup {DelayEastGrid}

InitDelay == InitLongRun(DelayGrids)
SpecDelay == InitDelay /\ [][Next]_vars

\* Bernoulli with several probabilities, banged from the west by a Delay in
\* the first tick
BernoulliGrids ==
    {GridOf(<< <<"D", ".", ".">>, <<".", "^", p>>, <<".", ".", ".">>, <<".", ".", ".">> >>) :
        p \in {".", "0", "5", "a"}}

InitBernoulli == InitGrids(BernoulliGrids)
SpecBernoulli == InitBernoulli /\ [][Next]_vars

\* Globals setting a key and a scale, and below it a Scaler, a Synth or a
\* MIDI operator that a Delay bangs from the west in the first tick
PitchGrid(key, scale, operator, octave, third) ==
    GridOf(<< <<"@", key, scale, ".", ".", ".", ".", ".", ".">>,
              <<"D", ".", ".", ".", ".", ".", ".", ".", ".">>,
              <<".", operator, "0", octave, third, ".", ".", ".", ".">> >>)

PitchGrids ==
    {PitchGrid(key, scale, operator, octave, degree) :
        key \in {"C", "c", "A", "g", "Z", "1"}, scale \in {"0", "1", "z"},
        operator \in {";", "~"}, octave \in {"0", "2", "k"},
        degree \in {"0", "6", "7", "z"}}
    \cup {PitchGrid("C", "0", ":", octave, note) :
             octave \in {"0", "2", "k"}, note \in {"C", "c", "A", "g", "Z", "1"}}

InitPitch == InitGrids(PitchGrids)
SpecPitch == InitPitch /\ [][Next]_vars

\* A Saver or a Loader that a Delay bangs from the west in the first tick,
\* with a name of up to two letters east of it
SessionGrid(operator, first, second) ==
    GridOf(<< <<"D", ".", ".", ".", ".", ".", ".", ".", ".", ".">>,
              <<".", operator, first, second, ".", ".", ".", ".", ".", ".">> >>)

SessionGrids ==
    {SessionGrid(operator, first, second) :
        operator \in {"[", "]"}, first \in {".", "a"}, second \in {".", "b"}}

\* the session files: none, the buffer, a session "ab", one that is no text
BufferFile == <<"E", ".", LINE_FEED>>
SessionFile == <<"1", "2", LINE_FEED, "3", LINE_FEED>>
SessionFiles ==
    {EmptyMap, MapInsert(EmptyMap, Buffer, BufferFile),
     MapInsert(EmptyMap, <<"a", "b">>, SessionFile),
     MapInsert(MapInsert(EmptyMap, Buffer, BufferFile), <<"a", "b">>, SessionFile),
     MapInsert(MapInsert(EmptyMap, Buffer, BufferFile), <<"a", "b">>, <<"1", INVALID_UTF8>>)}

SessionDirs ==
    {[dir |-> dir, files |-> EmptyMap] : dir \in {"absent", "denied"}}
        \cup {[dir |-> dir, files |-> files] :
                 dir \in {"present", "readonly", "full"}, files \in SessionFiles}

InitSessions ==
    \E grid \in SessionGrids, file_present \in BOOLEAN, checks \in BOOLEAN, dir \in SessionDirs :
        InitWithSessions(grid, 2, 10, file_present, checks, dir) /\ max_ticks = MaxTicks

SpecSessions == InitSessions /\ [][Next]_vars

\* A Delay that bangs a MIDI operator with the note C in the first tick, and
\* the three threads running on it
ThreadsGrid ==
    GridOf(<< <<"D", ".", ".", ".", ".">>,
              <<".", ":", ".", ".", "C">> >>)

InitThreads ==
    InitWithSessions(ThreadsGrid, 2, 5, FALSE, TRUE, NoSessions) /\ max_ticks = MaxTicks

SpecThreads == InitThreads /\ [][NextThreads]_vars

\* A Saver and a Loader on one row, both banged from the west by a Delay in
\* every tick, with the same three characters in their first name cells
RoundTripGrid(first, second, third) ==
    GridOf(<< <<"D", ".", ".", ".", ".", ".", ".", ".", ".", ".",
                "D", ".", ".", ".", ".", ".", ".", ".", ".", ".">>,
              <<".", "[", first, second, third, ".", ".", ".", ".", ".",
                ".", "]", first, second, third, ".", ".", ".", ".", ".">> >>)

RoundTripGrids ==
    {RoundTripGrid(first, second, third) : first, second, third \in {".", "a", "b"}}

\* no directory, an empty directory, and one that holds the buffer file
RoundTripDirs ==
    {NoSessions, [dir |-> "present", files |-> EmptyMap],
     [dir |-> "present", files |-> MapInsert(EmptyMap, Buffer, BufferFile)]}

InitRoundTrip ==
    \E grid \in RoundTripGrids, file_present \in BOOLEAN, checks \in BOOLEAN, dir \in RoundTripDirs :
        InitWithSessions(grid, 2, 20, file_present, checks, dir) /\ max_ticks = MaxTicks

SpecRoundTrip == InitRoundTrip /\ [][Next]_vars

\* A Midi operator banged once, in the first tick, by a South that cannot
\* move, with the note C and several durations; alone, or with a Synth that
\* an East bangs once, in the second tick
NoteOffGrid(length, first, operator) ==
    GridOf(<< <<".", "S", ".", ".", ".", ".", ".", ".", ".">>,
              <<".", ":", "0", ".", "C", ".", length, ".", ".">>,
              <<".", first, ".", operator, ".", ".", ".", ".", ".">> >>)

NoteOffGrids ==
    {NoteOffGrid(length, ".", ".") : length \in {"0", "1", "2"}}
       \cup {NoteOffGrid(length, "E", "~") : length \in {"0", "1", "2"}}

InitNoteOff == InitLongRun(NoteOffGrids)
SpecNoteOff == InitNoteOff /\ [][NextWithMidi]_vars

\* Two MIDI CC operators banged in the first tick, on one channel or two and
\* with one controller or two; and a Midi and a Synth banged in the first
\* tick, which write the pitch 36 on channel 0
ControlGrid(channel, first, second) ==
    GridOf(<< <<"D", ".", ".", ".", ".", ".", ".", ".", "D", ".", ".", ".">>,
              <<".", "?", "0", first, "5", ".", ".", ".", ".", "?", channel, second>> >>)

MidiSynthGrid ==
    GridOf(<< <<"D", ".", ".", ".", ".", ".", ".", ".", "D", ".", ".", ".">>,
              <<".", ":", "0", ".", "C", ".", ".", ".", ".", "~", ".", ".">> >>)

MergeGrids ==
    {ControlGrid(channel, first, second) :
        channel \in {"0", "1"}, first \in {"1", "2"}, second \in {"1", "2"}}
       \cup {MidiSynthGrid}

InitMerge == InitGrids(MergeGrids)
SpecMerge == InitMerge /\ [][Next]_vars

\* Generate, Query and Concat with every length operand that is a digit or a
\* lower-case letter
LengthGrids ==
    {GridOf(<< <<".", ".", len, operator>>, <<".", ".", ".", ".">> >>) :
        len \in Range(Digits) \cup Range(LowerLetters), operator \in {"G", "Q", "K"}}

InitLength == InitGrids(LengthGrids)
SpecLength == InitLength /\ [][Next]_vars

\* Midi, Scaler and Synth banged in the first tick under the default
\* globals, with several channels (engines), octaves, notes (degrees) and
\* velocities
RangeGrid(operator, channel, octave, third, velocity) ==
    GridOf(<< <<"D", ".", ".", ".", ".", ".", ".", ".", ".">>,
              <<".", operator, channel, octave, third, velocity, ".", ".", ".">> >>)

RangeGrids ==
    {RangeGrid(operator, channel, octave, third, velocity) :
        operator \in {":", ";", "~"}, channel \in {"0", "f", "g", "z"},
        octave \in {"0", "8", "9", "k"}, third \in {"C", "0", "z"},
        velocity \in {"0", "z"}}

InitRange == InitGrids(RangeGrids)
SpecRange == InitRange /\ [][Next]_vars

\* A comment around an East, closed by a second '#' or running to the end of
\* the row, with a second East behind it, and several cells left of and
\* above the first '#'
CommentGrid(above, left, closing) ==
    GridOf(<< <<".", above, ".", ".", ".", ".">>,
              <<left, "#", "E", closing, "E", ".">> >>)

CommentGrids ==
    {CommentGrid(above, left, closing) :
        above \in {".", "H", "J", "D"}, left \in {".", "A", "1", "D"}, closing \in {".", "#"}}

InitComment == InitGrids(CommentGrids)
SpecComment == InitComment /\ [][Next]_vars

\* A MIDI CC operator banged in the first tick, for two channels, two
\* controllers and several values
ControlChangeGrids ==
    {GridOf(<< <<"D", ".", ".", ".", ".">>,
               <<".", "?", channel, controller, value>> >>) :
        channel \in {"0", "1"}, controller \in {"1", "2"}, value \in {"0", "1", "z"}}

InitControlChange == InitGrids(ControlChangeGrids)
SpecControlChange == InitControlChange /\ [][NextWithMidiCC]_vars

\* An empty 1x2 grid, followed in time from the start of the evaluator thread
InitPacing ==
    InitWithClock(EmptyGrid(1, 2), 1, 2, FALSE, TRUE, NoSessions, ClockStart)
       /\ max_ticks = MaxLongTicks

SpecPacing == InitPacing /\ [][NextPacing]_vars

(***************************************************************************)
(* Properties.                                                             *)
(***************************************************************************)
InPass == pc \in {"tick_operators", "bang_operators"}
Here == Context_read(context, row, col)
TickReturned == pc = "notes" \/ (pc \in {"idle", "drop"} /\ context.ticks > 0)
AboutToEvaluate == pc = "tick_operators" /\ row = 0 /\ col = 0
InGrid(r, c) == <<r, c>> \in DOMAIN context.grid

\* the cells scanned before (row, col) in the pass that is running
Scanned == {cell \in DOMAIN context.grid :
               cell[1] < row \/ (cell[1] = row /\ cell[2] < col)}

\* C1: in both passes, when the scan reaches a cell that is in the lock set,
\* the step changes nothing in the context (grid, locks, notes, variables,
\* globals) and evaluates nothing.
C1_LockedOperatorNotEvaluated ==
    [][(InPass /\ Context_is_locked(context, row, col))
          => (context' = context /\ evaluated' = evaluated /\ writes' = writes)]_vars

\* an operator symbol that the first pass has passed over because it was locked
C1_Witness ==
    /\ InPass
    /\ \E cell \in Scanned :
          /\ cell \in context.locks
          /\ context.grid[cell] \in DOMAIN tick_operators
          /\ ~(\E i \in DOMAIN evaluated : evaluated[i] = <<1, cell[1], cell[2]>>)
          /\ pc = "tick_operators"

\* the cells an evaluator makes a Port of: those of its Inputs and Outputs,
\* and for Variable the two cells it listens to
RECURSIVE PortCells(_)
PortCells(updates) ==
    IF updates = << >> THEN {}
    ELSE (IF Head(updates).kind \in {"Inputs", "Outputs"}
          THEN {<<Head(updates).ports[i].row, Head(updates).ports[i].col>> :
                   i \in DOMAIN Head(updates).ports}
          ELSE {}) \cup PortCells(Tail(updates))

OperandCells(name, ctx, r, c) ==
    PortCells(evaluate(name, ctx, r, c,
                       CHOOSE d \in thread_rng(name, ctx, r, c) : TRUE, FALSE))
    \cup (IF name = "Variable" THEN {<<r, c - 1>>, <<r, c + 1>>} ELSE {})

\* the operator the running pass evaluates at (row, col), "none" if it evaluates none
EvaluatedHere ==
    IF Context_is_locked(context, row, col) THEN "none"
    ELSE IF pc = "tick_operators" /\ Here \in DOMAIN tick_operators
         THEN tick_operators[Here].name
    ELSE IF pc = "bang_operators" /\ Here \in DOMAIN bang_operators
            /\ bang_adjacent(context, row, col)
         THEN bang_operators[Here].name
    ELSE "none"

\* C2: once an operator has been evaluated, every cell it uses as an input
\* or output port is in the lock set, and no lock is released during a pass.
C2_PortsLockedAfterEvaluation ==
    [][(InPass /\ pc' # "panicked")
          => /\ context.locks \subseteq context'.locks
             /\ EvaluatedHere # "none"
                   => (OperandCells(EvaluatedHere, context, row, col)
                          \cap DOMAIN context.grid) \subseteq context'.locks]_vars

\* C3: when grid_tick has returned, every cell that holds '*' was written
\* with '*' during this tick, and no '*' is left on the grid when the first
\* operator is about to be evaluated.
C3_NoStaleBang ==
    /\ TickReturned =>
          \A cell \in DOMAIN context.grid :
             context.grid[cell] = "*" =>
                \E i \in DOMAIN writes :
                   /\ <<writes[i].row, writes[i].col>> = cell
                   /\ writes[i].value = "*"
    /\ AboutToEvaluate => \A cell \in DOMAIN context.grid : context.grid[cell] # "*"

\* a tick that began with a bang on the grid and ended with a fresh one
C3_Witness ==
    /\ TickReturned
    /\ \E cell \in DOMAIN tick_start.grid : tick_start.grid[cell] = "*"
    /\ \E cell \in DOMAIN context.grid : context.grid[cell] = "*"

\* C6: when the first operator of a tick is about to be evaluated, the lock
\* set and the variable map are empty.
C6_LocksAndVariablesEmpty ==
    AboutToEvaluate => (context.locks = {} /\ context.variables = EmptyMap)

\* a tick that starts after a tick that left locks and variables behind
C6_Witness ==
    /\ AboutToEvaluate
    /\ tick_start.locks # {}
    /\ tick_start.variables # EmptyMap

\* C7: no cell of the grid is written by two different operators in one tick.
C7_SingleWriterPerCell ==
    \A i, j \in DOMAIN writes :
       (/\ InGrid(writes[i].row, writes[i].col)
        /\ writes[i].row = writes[j].row
        /\ writes[i].col = writes[j].col)
          => (writes[i].by[2] = writes[j].by[2] /\ writes[i].by[3] = writes[j].by[3])

LowerCaseOperator(ch) == ch \in Range(LowerLetters) /\ ch \in DOMAIN bang_operators

\* C8: the second pass evaluates a lower-case operator letter exactly when
\* its cell is unlocked and a '*' is north, west or south of it; otherwise
\* the step leaves the context unchanged; the first pass never evaluates it.
C8_LowerCaseOnBang ==
    [][LowerCaseOperator(Here) =>
         LET trigger == /\ ~Context_is_locked(context, row, col)
                        /\ \/ Context_read(context, row - 1, col) = "*"
                           \/ Context_read(context, row, col - 1) = "*"
                           \/ Context_read(context, row + 1, col) = "*"
         IN /\ pc = "bang_operators" =>
                 /\ (evaluated' # evaluated) <=> trigger
                 /\ ~trigger => (context' = context /\ writes' = writes)
            /\ pc = "tick_operators" => (context' = context /\ evaluated' = evaluated)]_vars

\* a lower-case operator that the second pass has evaluated
C8_Witness ==
    /\ pc = "bang_operators"
    /\ \E i \in DOMAIN evaluated :
          /\ evaluated[i][1] = 2
          /\ LowerCaseOperator(Context_read(context, evaluated[i][2], evaluated[i][3]))

\* the note ':03C4f' asks for: C of octave 3, velocity operand 4,
\* duration operand f
S5Note(velocity, duration) ==
    [note_type |-> 0, channel |-> 0, engine |-> 0, sample |-> 0, slot |-> 0,
     note_number |-> 48, velocity |-> velocity, duration |-> duration,
     reverb |-> 0, started |-> FALSE, degree |-> 0, speed |-> 0]

\* an operator has written a '*' north or west of the ':' during the tick
S5Banged ==
    \E i \in DOMAIN writes :
       /\ writes[i].value = "*"
       /\ <<writes[i].row, writes[i].col>> \in {<<2, 1>>, <<3, 0>>}

FirstTickDone == pc = "idle" /\ context.ticks = 1

\* C4: in scenario S5 the first tick sends nothing to the MIDI sink when the
\* only '*' is the one typed at (3,0); when an operator writes a '*' west or
\* north of ':' during the tick, it sends exactly one message holding exactly
\* one note: note_type 0, channel 0, velocity floor(4*127/35), duration
\* 15*tick_time.
C4_S5MidiNote ==
    FirstTickDone =>
       midi_note_channel =
          IF S5Banged
          THEN << <<S5Note((4 * 127) \div 35, 15 * context.tick_time)>> >>
          ELSE << >>

\* the first tick of S5 with a Delay banging the ':' has sent its note
C4_Witness ==
    /\ FirstTickDone
    /\ S5Banged
    /\ Len(midi_note_channel) = 1
    /\ Len(context.notes) = 1

\* C4 as stated: S5 alone emits exactly one note with velocity
\* floor(15*127/35) and duration 4*tick_time.
C4_AsStated ==
    (FirstTickDone /\ init_grid = S5Grid) =>
       midi_note_channel = << <<S5Note((15 * 127) \div 35, 4 * context.tick_time)>> >>

RandomFree(grid) ==
    \A cell \in DOMAIN grid :
       /\ grid[cell] \in DOMAIN tick_operators
             => tick_operators[grid[cell]].name \notin {"Random", "Bernoulli"}
       /\ grid[cell] \in DOMAIN bang_operators
             => bang_operators[grid[cell]].name \notin {"Random", "Bernoulli"}

\* the operator table of the running pass
PassOperators == IF pc = "tick_operators" THEN tick_operators ELSE bang_operators

\* every outcome the step at (row, col) can have is the same one
StepDetermined ==
    EvaluatedHere # "none" =>
       \A d1, d2 \in thread_rng(EvaluatedHere, context, row, col) :
          apply(PassOperators[Here], context, row, col, d1, overflow_checks)
             = apply(PassOperators[Here], context, row, col, d2, overflow_checks)

C9_AddAllOperands ==
    LET a == init_grid[<<0, 0>>]
        b == init_grid[<<0, 2>>]
    IN (TickReturned /\ context.ticks = 1 /\ init_grid[<<0, 1>>] = "A"
        /\ a \notin DOMAIN tick_operators)
          => /\ context.grid[<<1, 1>>]
                   = base_36_to_char((Value(a) + Value(b)) % 36, Upper(a) \/ Upper(b))
             /\ {<<0, 0>>, <<0, 2>>} \subseteq context.locks

\* the first tick over 'zAZ' has left 'Y' below the A
C9_Witness ==
    /\ TickReturned /\ context.ticks = 1
    /\ init_grid[<<0, 0>>] = "z" /\ init_grid[<<0, 1>>] = "A" /\ init_grid[<<0, 2>>] = "Z"
    /\ context.grid[<<1, 1>>] = "Y"

\* C9 as stated: the same for every pair of base-36 characters a and b.
C9_AsStated ==
    LET a == init_grid[<<0, 0>>]
        b == init_grid[<<0, 2>>]
    IN (TickReturned /\ context.ticks = 1 /\ init_grid[<<0, 1>>] = "A")
          => /\ context.grid[<<1, 1>>]
                   = base_36_to_char((Value(a) + Value(b)) % 36, Upper(a) \/ Upper(b))
             /\ {<<0, 0>>, <<0, 2>>} \subseteq context.locks

\* C10: without a configuration file every operator of the registry has a
\* symbol, 'A' is the symbol of Add, and an unlocked 'A' reached by the first
\* pass is evaluated as Add.
C10_DefaultBindsCatalogue ==
    ~config_file =>
       /\ \A i \in DOMAIN operator_registry :
             operator_registry[i].name \in DOMAIN operator_map
       /\ "A" \in DOMAIN tick_operators
       /\ (pc = "tick_operators" /\ Here = "A" /\ ~Context_is_locked(context, row, col))
             => EvaluatedHere = "Add"

MoverNames == {"East", "West", "North", "South"}

\* the cell next to (r, c) in the direction the mover travels
Neighbour(name, r, c) ==
    CASE name = "East" -> <<r, c + 1>>
      [] name = "West" -> <<r, c - 1>>
      [] name = "North" -> <<r - 1, c>>
      [] name = "South" -> <<r + 1, c>>

\* what the claim says of the step at a mover standing at (row, col)
MoverMoves(name) ==
    LET nb == Neighbour(name, row, col) IN
    IF nb \in DOMAIN context.grid /\ context.grid[nb] = "."
    THEN /\ context'.grid = [context.grid EXCEPT ![<<row, col>>] = ".", ![nb] = Here]
         /\ nb \in context'.locks
    ELSE context'.grid = [context.grid EXCEPT ![<<row, col>>] = "*"]

WrittenThisTick(r, c) ==
    \E i \in DOMAIN writes : writes[i].row = r /\ writes[i].col = c

\* C11: a mover that is evaluated (its cell is unlocked when the scan reaches
\* it) and whose neighbour in its direction reads '.' at that moment leaves
\* '.' behind and stands on the neighbour, which is locked; an evaluated
\* mover whose neighbour is not '.' or lies outside the grid becomes '*'; no
\* cell written during the tick is evaluated as a mover, so a mover moves at
\* most one cell per tick; and one tick turns '*E......' into '..E.....'.
C11_Movers ==
    [][/\ (InPass /\ EvaluatedHere \in MoverNames)
             => (MoverMoves(EvaluatedHere) /\ ~WrittenThisTick(row, col))
       /\ (FirstTickDone /\ init_grid = S3Grid)
             => context.grid = GridOf(<< <<".", ".", "E", ".", ".", ".", ".", ".">> >>)]_vars

\* a mover has arrived on a neighbour cell, which is locked
C11_Witness ==
    /\ InPass
    /\ \E i \in DOMAIN writes :
          /\ writes[i].value \in {"E", "W", "N", "S"}
          /\ <<writes[i].row, writes[i].col>> # <<writes[i].by[2], writes[i].by[3]>>
          /\ Context_read(context, writes[i].row, writes[i].col) = writes[i].value
          /\ Context_read(context, writes[i].by[2], writes[i].by[3]) = "."
          /\ Context_is_locked(context, writes[i].row, writes[i].col)

\* C11 as stated: every mover the first pass reaches on a cell that was not
\* written in this tick moves or becomes '*', whether or not it is evaluated.
C11_AsStated ==
    [][(pc = "tick_operators" /\ Here \in DOMAIN tick_operators
        /\ tick_operators[Here].name \in MoverNames /\ ~WrittenThisTick(row, col))
          => MoverMoves(tick_operators[Here].name)]_vars

\* the operand at (r, c), an empty cell standing for the default
Operand(r, c, default) ==
    IF Context_read(context, r, c) = "." THEN default ELSE Context_read(context, r, c)

\* C12: the tick counter changes only at the end of grid_tick, where it
\* grows by 1; an evaluated Clock writes
\* encode((ticks / max(rate,1)) mod max(mod,1)) below itself, in the case of
\* its mod operand; and with '1C8' on row 0 the cell below C holds the digit
\* (k-1) mod 8 when the k-th tick has returned.
C12_Clock ==
    [][/\ context'.ticks = IF pc = "tick_end" THEN context.ticks + 1 ELSE context.ticks
       /\ (InPass /\ EvaluatedHere = "Clock") =>
             LET rate == Value(Operand(row, col - 1, "1"))
                 mod == Value(Operand(row, col + 1, "8"))
                 quotient == context.ticks \div (IF rate = 0 THEN 1 ELSE rate)
             IN Context_read(context', row + 1, col)
                   = base_36_to_char(quotient % (IF mod = 0 THEN 1 ELSE mod),
                                     Operand(row, col + 1, "8") \in Range(UpperLetters))
       /\ (TickReturned /\ init_grid = S2Grid) =>
             context.grid[<<1, 1>>] = Digits[((context.ticks - 1) % 8) + 1]]_vars

\* the ninth tick of '1C8' has returned and the cell below C is back at '0'
C12_Witness ==
    /\ TickReturned
    /\ init_grid = S2Grid
    /\ context.ticks = 9
    /\ context.grid[<<1, 1>>] = "0"

\* the Euclid at (0,1) has left a '*' below itself in the t-th tick, during
\* which the counter is t - 1
EuclidBang(t) == grid_log[t][<<1, 1>>] = "*"

EuclidPattern(n) == [t \in 1 .. n |-> IF EuclidBang(t) THEN "*" ELSE "."]

\* C13: with 'dUl' on row 0 and rotation 0 the Euclid bangs in the tick with
\* counter t iff (d * t) mod max(l,1) < d; for d <= l every max(l,1)
\* consecutive ticks hold exactly d bangs; '1U8' bangs in ticks 0 and 8 only
\* and '3U8' gives '*..*..*.' over ticks 0..7.
C13_Euclid ==
    TickReturned =>
       LET d == IF init_grid[<<0, 0>>] = "." THEN 1 ELSE Value(init_grid[<<0, 0>>])
           l == IF init_grid[<<0, 2>>] = "." THEN 8 ELSE Value(init_grid[<<0, 2>>])
           length == IF l = 0 THEN 1 ELSE l
           n == Len(grid_log)
       IN /\ \A t \in 1 .. n : EuclidBang(t) <=> ((d * (t - 1)) % length < d)
          /\ d <= l =>
                \A s \in 1 .. n - length + 1 :
                   Cardinality({t \in s .. s + length - 1 : EuclidBang(t)}) = d
          /\ (init_grid = EuclidGrid("1", "8", ".") /\ n >= 9) =>
                {t \in 1 .. 9 : EuclidBang(t)} = {1, 9}
          /\ (init_grid = EuclidGrid("3", "8", ".") /\ n >= 8) =>
                EuclidPattern(8) = <<"*", ".", ".", "*", ".", ".", "*", ".">>

\* nine ticks of '3U8' have returned, the seventh with a bang
C13_Witness ==
    /\ TickReturned
    /\ init_grid = EuclidGrid("3", "8", ".")
    /\ Len(grid_log) = 9
    /\ EuclidBang(7)
    /\ ~EuclidBang(8)

\* an operator at (r, c) has written value below itself during this tick
WroteBelow(r, c, value) ==
    \E i \in DOMAIN writes :
       writes[i] = [row |-> r + 1, col |-> c, value |-> value, by |-> writes[i].by]
       /\ writes[i].by[2] = r /\ writes[i].by[3] = c

\* C14: an evaluated Variable whose west cell holds a name n assigns
\* n := its east operand; one whose west cell is '.' writes below itself the
\* value of the variable named by its east operand, '.' if no operator has
\* assigned it earlier in the same tick.  So in 'aV1.Va' the reader writes
\* '1', in '.VaaV1' the reader writes '.', and a reader that follows a
\* writer which runs in the first tick only writes '1' in the first tick and
\* '.' in the second.
C14_VariableScope ==
    [][/\ (InPass /\ EvaluatedHere = "Variable") =>
             LET name == Context_read(context, row, col - 1)
                 value == Context_read(context, row, col + 1)
             IN IF name = "."
                THEN /\ Context_read(context', row + 1, col)
                           = IF value \in DOMAIN context.variables
                             THEN context.variables[value] ELSE "."
                     /\ context'.variables = context.variables
                ELSE /\ name \in DOMAIN context'.variables
                     /\ context'.variables[name] = value
                     /\ context'.grid = context.grid
       /\ (TickReturned /\ init_grid = WriterFirstGrid) =>
             (context.variables["a"] = "1" /\ WroteBelow(0, 4, "1")
              /\ context.grid[<<1, 4>>] = "1")
       /\ (TickReturned /\ init_grid = ReaderFirstGrid) =>
             (context.variables["a"] = "1" /\ WroteBelow(0, 1, ".")
              /\ context.grid[<<1, 1>>] = ".")
       /\ (TickReturned /\ init_grid = WriterOnceGrid) =>
             IF context.ticks = 1
             THEN context.variables["a"] = "1" /\ WroteBelow(2, 5, "1")
             ELSE "a" \notin DOMAIN context.variables /\ WroteBelow(2, 5, ".")]_vars

\* the second tick of the writer that ran once has returned: the reader, which
\* wrote '1' in the first tick, has written '.'
C14_Witness ==
    /\ TickReturned
    /\ init_grid = WriterOnceGrid
    /\ context.ticks = 2
    /\ grid_log[1][<<3, 5>>] = "1"
    /\ context.grid[<<3, 5>>] = "."

\* C14 as stated: 'Va1' writes a=1 and a later 'V.a' emits '1' below.
C14_AsStated ==
    (TickReturned /\ init_grid = S6Grid) =>
       /\ "a" \in DOMAIN context.variables
       /\ context.variables["a"] = "1"
       /\ context.grid[<<1, 3>>] = "1"

\* the key notes_tick groups by, and the places of a buffer holding a key
NoteKey(note) == <<note.channel, note.note_number>>
NoteKeys(notes) == {NoteKey(notes[i]) : i \in DOMAIN notes}
Group(notes, key) == {i \in DOMAIN notes : NoteKey(notes[i]) = key}

\* what is left of a note after a tick of tick_time: only a started note
\* is decremented
Remaining(note, tick_time) ==
    IF ~note.started THEN note.duration
    ELSE IF note.duration - tick_time > 0 THEN note.duration - tick_time ELSE 0
AfterTick(note, tick_time) == [note EXCEPT !.duration = Remaining(note, tick_time)]

\* the place of the last un-started note of a key, 0 when there is none
LastUnstarted(notes, key) ==
    LET unstarted == {i \in Group(notes, key) : ~notes[i].started}
    IN IF unstarted = {} THEN 0 ELSE CHOOSE i \in unstarted : \A j \in unstarted : j <= i

\* the candidates of a key that are not superseded by a later un-started one
Contenders(notes, key) == {i \in Group(notes, key) : i >= LastUnstarted(notes, key)}

\* the first contender with the greatest remaining duration
Winner(notes, tick_time, key) ==
    CHOOSE i \in Contenders(notes, key) : \A j \in Contenders(notes, key) :
        \/ Remaining(notes[j], tick_time) < Remaining(notes[i], tick_time)
        \/ Remaining(notes[j], tick_time) = Remaining(notes[i], tick_time) /\ i <= j

\* a buffer as run_notes builds it: the notes kept by the previous run, all
\* started and of distinct keys, followed by the notes pushed in the tick
PipelineShaped(notes) ==
    \A i, j \in DOMAIN notes :
        i < j => /\ notes[j].started => notes[i].started
                 /\ notes[i].started /\ notes[j].started
                       => NoteKey(notes[i]) # NoteKey(notes[j])

\* the tick_time is the one Context::new computed from tempo and divisions
ProgramTickTime == context.tick_time = 60000 \div (context.tempo * context.divisions)

\* every key of the buffer is the key of exactly one note of the output
OnePerKey(notes, out) ==
    /\ NoteKeys(out) = NoteKeys(notes)
    /\ \A i, j \in DOMAIN out : NoteKey(out[i]) = NoteKey(out[j]) => i = j

\* C15 (as amended): the output of notes_tick holds exactly one note per
\* (channel, note_number) of the buffer. It is the last un-started candidate
\* of the group, unless a started candidate placed after it has a greater
\* remaining duration; in a group without un-started candidates it is the
\* first started candidate with the greatest remaining duration. In the
\* buffers run_notes builds the un-started candidate pushed last is kept,
\* whatever its duration.
C15_Deduplication ==
    LET notes == notes_log.midi_notes
        out == notes_log.processed_notes
    IN /\ OnePerKey(notes, out)
       /\ \A i \in DOMAIN out :
             LET key == NoteKey(out[i])
             IN /\ out[i] = AfterTick(notes[Winner(notes, notes_log.tick_time, key)],
                                      notes_log.tick_time)
                /\ (PipelineShaped(notes) /\ LastUnstarted(notes, key) # 0)
                      => out[i] = notes[LastUnstarted(notes, key)]

\* a run of the pipeline on two un-started notes of one key, the first with
\* the greater duration, has kept the second
C15_Witness ==
    /\ pc = "idle"
    /\ Len(notes_log.midi_notes) = 2
    /\ ~notes_log.midi_notes[1].started /\ ~notes_log.midi_notes[2].started
    /\ NoteKey(notes_log.midi_notes[1]) = NoteKey(notes_log.midi_notes[2])
    /\ notes_log.midi_notes[1].duration > notes_log.midi_notes[2].duration
    /\ notes_log.processed_notes = <<notes_log.midi_notes[2]>>

\* C15 as stated, on the buffers run_notes builds and with the tick_time of
\* Context::new: one note per key, an
\* un-started one whenever the group has one, otherwise the started one with
\* the greatest remaining duration, and of the notes pushed in the tick the
\* one with the greater duration
C15_AsStated ==
    LET notes == notes_log.midi_notes
        out == notes_log.processed_notes
    IN (PipelineShaped(notes) /\ ProgramTickTime) =>
       /\ OnePerKey(notes, out)
       /\ \A i \in DOMAIN out :
             LET group == Group(notes, NoteKey(out[i]))
                 unstarted == {j \in group : ~notes[j].started}
             IN /\ unstarted # {} => \E j \in unstarted : out[i] = notes[j]
                /\ unstarted = {} =>
                      \E j \in group :
                         /\ out[i] = AfterTick(notes[j], notes_log.tick_time)
                         /\ \A k \in group : Remaining(notes[k], notes_log.tick_time)
                                                <= out[i].duration
                /\ \A j \in unstarted : notes[j].duration <= out[i].duration

\* the notes of a key in the buffer the pipeline left
KeptOf(key) == {note \in Range(context.notes) : NoteKey(note) = key}

\* C16 (as amended): when the pipeline has run with tick_time d, a started
\* note of the buffer with duration > 0 that de-duplication kept has the
\* duration max(0, old - d), and is dropped from the buffer when that is 0;
\* an un-started note with duration > 0 that de-duplication kept is started
\* and still has its old duration.
C16_DurationAfterTick ==
    pc = "idle" =>
       \A key \in NoteKeys(notes_log.midi_notes) :
          LET old == notes_log.midi_notes[Winner(notes_log.midi_notes,
                                                 notes_log.tick_time, key)]
              left == old.duration - notes_log.tick_time
          IN old.duration > 0 =>
                IF old.started
                THEN IF left > 0 THEN KeptOf(key) = {[old EXCEPT !.duration = left]}
                     ELSE KeptOf(key) = {}
                ELSE KeptOf(key) = {[old EXCEPT !.started = TRUE]}

\* the pipeline has run with a tick_time d > 0 on a started note of more than
\* d, which is in the buffer with d less, and on an un-started note, which is
\* in the buffer with the duration it had
C16_Witness ==
    /\ pc = "idle"
    /\ notes_log.tick_time > 0
    /\ \E i, j \in DOMAIN notes_log.midi_notes :
          LET started == notes_log.midi_notes[i]
              unstarted == notes_log.midi_notes[j]
          IN /\ started.started /\ started.duration > notes_log.tick_time
             /\ [started EXCEPT !.duration = @ - notes_log.tick_time] \in Range(context.notes)
             /\ ~unstarted.started /\ unstarted.duration > 0
             /\ [unstarted EXCEPT !.started = TRUE] \in Range(context.notes)

\* C16 as stated, for the notes that are alone with their key in a buffer
\* run_notes builds: a note with duration > 0 has max(0, old - d) afterwards
C16_AsStated ==
    (pc = "idle" /\ ProgramTickTime /\ PipelineShaped(notes_log.midi_notes)) =>
       \A i \in DOMAIN notes_log.midi_notes :
          LET old == notes_log.midi_notes[i]
              left == old.duration - notes_log.tick_time
          IN (old.duration > 0 /\ Group(notes_log.midi_notes, NoteKey(old)) = {i}) =>
                \A note \in KeptOf(NoteKey(old)) :
                   note.duration = IF left > 0 THEN left ELSE 0

\* C17 (as amended): between ticks every note of the buffer is started and
\* has duration > 0. A note the latest run of the pipeline dispatched for the
\* first time has the duration its operator wrote; every other note has been
\* decremented by tick_time in that run, as in every run since its first
\* dispatch.
C17_StartedNotes ==
    pc = "idle" =>
       \A note \in Range(context.notes) :
          /\ note.started
          /\ note.duration > 0
          /\ \E i \in DOMAIN notes_log.midi_notes :
                LET old == notes_log.midi_notes[i]
                IN IF old.started
                   THEN note = [old EXCEPT !.duration = @ - notes_log.tick_time]
                   ELSE note = [old EXCEPT !.started = TRUE]

\* between the second tick and the third the buffer holds the note of the
\* first tick, decremented once
C17_Witness ==
    /\ pc = "idle"
    /\ context.ticks = 2
    /\ \E i \in DOMAIN notes_log.midi_notes :
          /\ notes_log.midi_notes[i].started
          /\ context.notes =
                <<[notes_log.midi_notes[i] EXCEPT !.duration = @ - context.tick_time]>>

\* C17 as stated: between ticks no started note of the buffer is a note an
\* operator wrote in the tick, with the duration the operator gave it
C17_AsStated ==
    pc = "idle" =>
       \A note \in Range(context.notes) :
          note.started =>
             \A i \in DOMAIN notes_log.midi_notes :
                ~notes_log.midi_notes[i].started
                   => note # [notes_log.midi_notes[i] EXCEPT !.started = TRUE]

\* C18: when the pipeline has applied notes_tick to a buffer B with
\* tick_time 0, notes_tick applied with tick_time 0 to the notes it returned
\* returns, in whatever order, the same notes.
C18_NotesTickIdempotent ==
    notes_log.tick_time = 0 =>
       \A again \in notes_tick(notes_log.processed_notes, 0) :
          Range(again) = Range(notes_log.processed_notes)

\* notes_tick has run with tick_time 0 on a buffer of two notes of one key
\* and has returned one started note with duration > 0
C18_Witness ==
    /\ pc = "idle"
    /\ notes_log.tick_time = 0
    /\ Len(notes_log.midi_notes) = 2
    /\ Len(notes_log.processed_notes) = 1
    /\ notes_log.processed_notes[1].started
    /\ notes_log.processed_notes[1].duration > 0

\* the notes of the messages the latest run of the pipeline sent to each sink
NotesIn(messages) == UNION {Range(messages[i]) : i \in DOMAIN messages}
SentToMidi == NotesIn(notes_log.midi_note_sender)
SentToSynth == NotesIn(notes_log.synth_note_sender)
SentToSampler == NotesIn(notes_log.sampler_note_sender)
SentToMidiCC == NotesIn(notes_log.midi_cc_sender)

\* the notes of a type among those notes_tick returned to the latest run
Survivors(note_type) ==
    {note \in Range(notes_log.processed_notes) : note.note_type = note_type}
Unstarted(notes) == {note \in notes : ~note.started}

\* C19 (as amended): in every run of the pipeline the MIDI sink is sent
\* exactly the surviving notes of type 0 and the MIDI CC sink exactly those
\* of type 3, started or not, so that such a note is dispatched in every tick
\* until it is dropped; the synth sink is sent exactly the un-started
\* surviving notes of type 1 and the sampler sink exactly those of type 2, so
\* that such a note is dispatched once. A note is un-started until the run
\* that first dispatches it, and every note the run leaves in the buffer is
\* started.
C19_Dispatch ==
    /\ SentToMidi = Survivors(0)
    /\ SentToSynth = Unstarted(Survivors(1))
    /\ SentToSampler = Unstarted(Survivors(2))
    /\ SentToMidiCC = Survivors(3)
    /\ pc = "idle" =>
          Range(context.notes) =
             {[note EXCEPT !.started = TRUE] :
                 note \in {n \in Range(notes_log.processed_notes) : n.duration > 0}}

\* a run after the first tick has sent a started note to the MIDI sink and
\* nothing to the synth sink, while a started synth note survived
C19_Witness ==
    /\ pc = "idle"
    /\ context.ticks > 0
    /\ \E note \in SentToMidi : note.started
    /\ Survivors(1) # {}
    /\ SentToSynth = {}

\* C19 as stated, for the buffers run_notes builds: every surviving note is
\* sent to the sink of its type in every run
C19_AsStated ==
    (/\ PipelineShaped(notes_log.midi_notes)
     /\ ProgramTickTime
     /\ \A i \in DOMAIN notes_log.midi_notes :
           notes_log.midi_notes[i].started => notes_log.midi_notes[i].duration > 0) =>
       /\ SentToMidi = Survivors(0)
       /\ SentToSynth = Survivors(1)
       /\ SentToSampler = Survivors(2)
       /\ SentToMidiCC = Survivors(3)

\* what the MIDI thread has sent for the notes it has received
Handled == Range(midi_sink.handled)
Stop(note) == <<128 + note.channel, note.note_number, note.velocity>>
Start(note) == <<144 + note.channel, note.note_number, note.velocity>>

\* C20 (as amended): for every note the MIDI sink receives, the sink sends a
\* note-off when the note is started and its duration is 0, a note-off
\* followed by a note-on when the note is un-started, and nothing when the
\* note is started and its duration is greater than 0.
C20_MidiSink ==
    \A h \in Handled :
       h.sent = IF h.note.started /\ h.note.duration = 0 THEN <<Stop(h.note)>>
                ELSE IF ~h.note.started THEN <<Stop(h.note), Start(h.note)>>
                ELSE << >>

\* the MIDI sink has received an un-started note, a started note that has
\* run out and a started note that has not
C20_Witness ==
    /\ \E h \in Handled : ~h.note.started /\ Len(h.sent) = 2
    /\ \E h \in Handled : h.note.started /\ h.note.duration = 0 /\ Len(h.sent) = 1
    /\ \E h \in Handled : h.note.started /\ h.note.duration > 0 /\ h.sent = << >>

\* C20 as stated, in scenario S5 with a Delay: a note-off for a started note
\* with duration 0, and a note-off followed by a note-on for every other note
C20_AsStated ==
    init_grid = S5DelayGrid =>
       \A h \in Handled :
          h.sent = IF h.note.started /\ h.note.duration = 0 THEN <<Stop(h.note)>>
                   ELSE <<Stop(h.note), Start(h.note)>>

\* C30: when a Delay has been evaluated at tick counter t with rate r and
\* modulus m, the cell below it holds '*' if t mod (max(r,1)*max(m,1)) = 0
\* and '.' otherwise, whatever it held before.
C30_DelayOutput ==
    [][(InPass /\ EvaluatedHere = "Delay") =>
          LET rate == Value(Operand(row, col - 1, "1"))
              mod == Value(Operand(row, col + 1, "8"))
              period == (IF rate = 0 THEN 1 ELSE rate) * (IF mod = 0 THEN 1 ELSE mod)
          IN Context_read(context', row + 1, col)
                = IF context.ticks % period = 0 THEN "*" ELSE "."]_vars

\* C29: when a Bernoulli is evaluated with an adjacent bang, exactly one of
\* the cell below it and the cell two below it is left holding '*'; with the
\* probability operand 'a' it is the cell below, and with '0' it is the cell
\* two below; without a bang neither cell is set to '*'.
C29_Bernoulli ==
    [][(InPass /\ EvaluatedHere = "Bernoulli") =>
          LET s == Context_read(context', row + 1, col)
              s1 == Context_read(context', row + 2, col)
              p == Value(Operand(row, col + 1, "2"))
          IN IF bang_adjacent(context, row, col)
             THEN /\ (s = "*") # (s1 = "*")
                  /\ p = 10 => s = "*"
                  /\ p = 0 => s1 = "*"
             ELSE /\ s = "*" => Context_read(context, row + 1, col) = "*"
                  /\ s1 = "*" => Context_read(context, row + 2, col) = "*"]_vars

\* the offset of a key or note character within its octave, when the
\* lower-case letters are the sharp ones
KeyOffset(ch, sharp_when_upper) ==
    LET index == ((Value(ch) - 10) % 7) + 1
    IN IF Upper(ch) = sharp_when_upper THEN SHARP_NOTES[index] ELSE NATURAL_NOTES[index]

\* the pitch of a Scaler or Synth note for the globals and operands given
ScalePitch(key, scale, octave, degree, sharp_when_upper) ==
    12 * (Value(degree) \div 7) + SCALES[(Value(scale) % 26) + 1][(Value(degree) % 7) + 1]
       + 12 * (Value(octave) + 1 + (Value(key) - 10) \div 7)
       + KeyOffset(key, sharp_when_upper)

\* the pitch of a note of the MIDI operator
MidiPitch(octave, note) ==
    12 * (Value(octave) + 1 + (Value(note) - 10) \div 7) + KeyOffset(note, FALSE)

\* the step evaluates the operator named, which has a bang beside it and
\* neither panics nor leaves the eight bits
EmitsNote(names) ==
    /\ InPass
    /\ EvaluatedHere \in names
    /\ bang_adjacent(context, row, col)
    /\ pc' # "panicked"

LastNote == context'.notes[Len(context'.notes)]

C26_TickCompletes == pc # "panicked"

\* the name spelled east of the operator at the scan position
SpelledName ==
    SelectSeq([k \in 1 .. 8 |-> Context_read(context, row, col + k)],
              LAMBDA a : a \notin {".", NUL})

\* the Loader evaluated in this step asks for a session that cannot be
\* opened or read
LoadFails ==
    /\ EvaluatedHere = "Loader"
    /\ bang_adjacent(context, row, col)
    /\ SpelledName # Buffer
    /\ \/ sessions.dir \in {"absent", "denied"}
       \/ SpelledName \notin DOMAIN sessions.files
       \/ \E i \in DOMAIN sessions.files[SpelledName] :
             sessions.files[SpelledName][i] = INVALID_UTF8

\* the Saver evaluated in this step cannot make the directory, or open or
\* write the file
SaveFails ==
    /\ EvaluatedHere = "Saver"
    /\ \/ sessions.dir \in {"denied", "readonly", "full"}
       \/ bang_adjacent(context, row, col) /\ SpelledName = << >>

\* C27: a failing save or load never aborts the tick: the request is
\* dropped, the grid is left unchanged by it and the tick goes on.
C27_FailureDropped ==
    [][(InPass /\ (LoadFails \/ SaveFails))
          => (pc' # "panicked" /\ context'.grid = context.grid)]_vars

\* a Load of a session that does not exist has put the buffer file in the
\* place of the grid
BufferLoaded ==
    /\ FirstTickDone
    /\ init_grid[<<1, 1>>] = "]"
    /\ <<"a", "b">> \notin DOMAIN sessions.files
    /\ init_grid[<<1, 2>>] = "a"
    /\ context.grid = GridOf(<< <<"E", ".">> >>)

\* a Save has written the grid and a Load has read a session back
SessionSaved ==
    /\ FirstTickDone
    /\ <<"a">> \in DOMAIN sessions.files
    /\ str_lines(sessions.files[<<"a">>]) =
          << <<"D", ".", ".", ".", ".", ".", ".", ".", ".", ".">>,
             <<"*", "[", "a", ".", ".", ".", ".", ".", ".", ".">> >>

SessionLoaded ==
    /\ FirstTickDone
    /\ init_grid[<<1, 1>>] = "]"
    /\ context.grid = GridOf(<< <<"1", "2">> >>) @@ (<<1, 0>> :> "3")

\* C25: in every reachable state, also after tempo_up and tempo_down keys,
\* tick_time * tempo * divisions = 60000.
C25_TickTimeMatchesTempo ==
    context.tick_time * context.tempo * context.divisions = 60000

\* the step is one of the evaluator thread
EvaluatorStep == <<pc, row, col>>' # <<pc, row, col>>

\* C22: in every step the evaluator thread takes while app_state is Paused
\* or Shutdown, the grid, the lock set, the variables, the tick counter and
\* the note buffer are unchanged and nothing is sent to any sink.
C22_OnlyRunningTicks ==
    [][(context.app_state \in {"Paused", "Shutdown"} /\ EvaluatorStep)
          => /\ context'.grid = context.grid
             /\ context'.locks = context.locks
             /\ context'.variables = context.variables
             /\ context'.ticks = context.ticks
             /\ context'.notes = context.notes
             /\ UNCHANGED <<midi_note_channel, synth_note_channel, sampler_note_channel,
                            midi_cc_channel, midi_port_channel>>]_vars

\* the evaluator has locked the context in the state Paused, after a tick
\* that sent a note to the MIDI sink
C22_Witness ==
    /\ context.app_state = "Paused"
    /\ pc = "drop"
    /\ mutex = "notes"
    /\ context.ticks = 1
    /\ Len(midi_note_channel) = 1

\* the evaluator is between the lock of run_notes and the drop of it
InTick == pc \in {"tick_operators", "bang_operators", "tick_end", "notes"}

AllNotesOffSent ==
    \A channel \in 0 .. 15, note \in 0 .. 127 :
        \E i \in DOMAIN midi_sink.conn : midi_sink.conn[i] = <<128 + channel, note, 0>>

\* C23: when the program is shut down, the MIDI sink sends a note-off for
\* every one of the 16 channels x 128 pitches, whether or not a batch of
\* notes is pending: by the time the process has ended, or in the state
\* Shutdown with the MIDI thread back at the top of its loop, they are sent.
C23_AllNotesOffOnShutdown ==
    (events.at = "exited" \/ (context.app_state = "Shutdown" /\ midi_sink.pc = "port"))
        => AllNotesOffSent

\* the notes of a sequence of messages, in the order sent
RECURSIVE Flatten(_)
Flatten(messages) ==
    IF messages = << >> THEN << >> ELSE Head(messages) \o Flatten(Tail(messages))

\* the messages the latest run of the pipeline sent, sink by sink
SentByRun ==
    <<notes_log.midi_note_sender, notes_log.synth_note_sender,
      notes_log.sampler_note_sender, notes_log.midi_cc_sender>>

\* C21: in each tick the evaluator sends at most one message per sink
\* channel, each note of the tick appears in exactly one message, and a sink
\* receives the vectors of successive ticks in the order they were sent.
C21_OneSnapshotPerTick ==
    /\ \A k \in DOMAIN SentByRun :
          /\ Len(SentByRun[k]) <= 1
          /\ \A note \in NotesIn(SentByRun[k]) :
                Cardinality({i \in DOMAIN Flatten(SentByRun[k]) :
                                Flatten(SentByRun[k])[i] = note}) = 1
    /\ [i \in DOMAIN midi_sink.handled |-> midi_sink.handled[i].note]
          = Flatten(SubSeq(midi_note_channel, 1, midi_sink.received))

\* the name cells of the operator at (r, c)
NameCells(r, c) == [k \in 1 .. 8 |-> Context_read(context, r, c + k)]

\* the running pass has evaluated a banged Saver at (1, 1) and now evaluates a
\* banged Loader whose eight name cells hold the same characters
LoaderAfterSaver ==
    /\ InPass
    /\ EvaluatedHere = "Loader"
    /\ bang_adjacent(context, row, col)
    /\ \E i \in DOMAIN evaluated :
          /\ evaluated[i] = <<(IF pc = "tick_operators" THEN 1 ELSE 2), 1, 1>>
          /\ PassOperators[Context_read(context, 1, 1)].name = "Saver"
          /\ bang_adjacent(context, 1, 1)
    /\ NameCells(1, 1) = NameCells(row, col)

\* the grid in the file the Saver at (1, 1) has written
SavedGrid == grid_of_lines(str_lines(sessions.files[saver(context, 1, 1)[3].name]))

\* C31: when a Saver on bang with name cells N has written the grid, a
\* Loader on bang whose name cells hold the same characters N restores a grid
\* that is cell-for-cell the saved one, for every content of the name cells.
C31_SaveLoadRoundTrip ==
    [][LoaderAfterSaver => (pc' # "panicked" /\ context'.grid = SavedGrid)]_vars

\* the running tick has evaluated the cell (r, c) in the given pass
EvaluatedIn(pass, r, c) == \E i \in DOMAIN evaluated : evaluated[i] = <<pass, r, c>>

\* C32 as stated: in one tick every operator cell is evaluated at most once
\* across the first and the second pass together.
C32_AsStated ==
    \A i, j \in DOMAIN evaluated :
       (evaluated[i][2] = evaluated[j][2] /\ evaluated[i][3] = evaluated[j][3]) => i = j

\* C32: in one tick every operator cell is evaluated at most once in each
\* pass, and the second pass evaluates a cell the first pass has evaluated
\* only when the symbol in the cell is its own ASCII lower-case form.
C32_OncePerPass ==
    [][(InPass /\ Len(evaluated') = Len(evaluated) + 1)
          => /\ ~EvaluatedIn((IF pc = "tick_operators" THEN 1 ELSE 2), row, col)
             /\ (pc = "bang_operators" /\ EvaluatedIn(1, row, col))
                   => to_ascii_lowercase(Here) = Here]_vars

\* a Midi operator with a bang to its west has been evaluated in both passes
C32_Witness ==
    /\ pc = "tick_end"
    /\ \E cell \in DOMAIN context.grid :
          /\ context.grid[cell] = ":"
          /\ Context_read(context, cell[1], cell[2] - 1) = "*"
          /\ EvaluatedIn(1, cell[1], cell[2])
          /\ EvaluatedIn(2, cell[1], cell[2])

\* the note-on and note-off messages for (channel, pitch) that the MIDI
\* connection has been sent
SentFor(channel, pitch) ==
    SelectSeq(midi_sink.conn,
              LAMBDA message : /\ message[2] = pitch
                               /\ message[1] \in {NOTE_ON_MESSAGE + channel,
                                                  NOTE_OFF_MESSAGE + channel})

\* the last of them is a note-on
Sounding(channel, pitch) ==
    /\ SentFor(channel, pitch) # << >>
    /\ SentFor(channel, pitch)[Len(SentFor(channel, pitch))][1] = NOTE_ON_MESSAGE + channel

\* the evaluator is between two ticks and the MIDI thread has handled every
\* message sent to it
AllHandled == pc = "idle" /\ midi_sink.received = Len(midi_note_channel)

\* the note buffer holds a MIDI note for (channel, pitch), which is stopped
\* when it runs out
Pending(channel, pitch) ==
    \E i \in DOMAIN context.notes :
       /\ context.notes[i].note_type = 0
       /\ context.notes[i].channel = channel
       /\ context.notes[i].note_number = pitch

\* C33: while the state stays Running every note-on the MIDI sink sends is
\* followed by a note-off for the same (channel, pitch): whenever every
\* message is handled and a note-on is the last event sent for a (channel,
\* pitch), the note buffer still holds the MIDI note that will stop it, for
\* every duration operand including 0 and whatever other notes are written.
C33_NoteOffFollows ==
    AllHandled =>
       \A channel \in 0 .. 15, pitch \in 0 .. 127 :
          Sounding(channel, pitch) => Pending(channel, pitch)

\* the notes the latest run of the pipeline has sent to the sink of a type
SentToSink(note_type) ==
    CASE note_type = 0 -> SentToMidi
      [] note_type = 1 -> SentToSynth
      [] note_type = 2 -> SentToSampler
      [] note_type = 3 -> SentToMidiCC

\* the sink of the note has been sent a note of its type, channel and
\* number and, for a MIDI CC event, of its controller
Delivered(note) ==
    \E sent \in SentToSink(note.note_type) :
       /\ sent.note_type = note.note_type
       /\ sent.channel = note.channel
       /\ sent.note_number = note.note_number
       /\ note.note_type = 3 => sent.degree = note.degree

\* C34: de-duplication merges only notes of one type: every un-started note
\* in the buffer given to a run of the pipeline is delivered to its sink
\* unless a note of its own type has the same channel and number, and two
\* MIDI CC events for different controllers on one channel are both delivered.
C34_SameTypeMerge ==
    pc = "drop" =>
       \A i \in DOMAIN notes_log.midi_notes :
          ~notes_log.midi_notes[i].started => Delivered(notes_log.midi_notes[i])

\* the updates the operator evaluated in this step returns
UpdatesHere ==
    evaluate(EvaluatedHere, context, row, col,
             CHOOSE d \in thread_rng(EvaluatedHere, context, row, col) : TRUE,
             overflow_checks)

\* C35: for every operator and every base-36 value of its length operand, the
\* Inputs update and the Outputs update it returns hold no more ports than
\* the registry declares input and output labels for it, so that the label
\* lookup of Operator::apply stays in range and the step does not panic.
C35_PortsWithinLabels ==
    [][(InPass /\ EvaluatedHere # "none")
          => /\ \A i \in DOMAIN UpdatesHere :
                   /\ UpdatesHere[i].kind = "Inputs"
                         => Len(UpdatesHere[i].ports) <= PassOperators[Here].input_ports
                   /\ UpdatesHere[i].kind = "Outputs"
                         => Len(UpdatesHere[i].ports) <= PassOperators[Here].output_ports
             /\ pc' # "panicked"]_vars

\* C36: every note that Midi, Scaler or Synth writes to the buffer has
\* note_number in 0..127 and velocity in 0..127, every type-0 note has
\* channel in 0..15, and the computation of note_number does not leave the
\* 8-bit range (the step does not panic on an overflow).
C36_NoteFieldsInRange ==
    [][(InPass /\ EvaluatedHere \in {"Midi", "Scaler", "Synth"})
          => /\ pc' # "panicked"
             /\ \A i \in DOMAIN context'.notes :
                   /\ context'.notes[i].note_number \in 0 .. 127
                   /\ context'.notes[i].velocity \in 0 .. 127
                   /\ context'.notes[i].note_type = 0
                         => context'.notes[i].channel \in 0 .. 15]_vars

\* C37: the nul character stays outside the grid: no in-bounds cell holds
\* '\0' after a tick when none held it before, so an empty in-bounds cell is
\* always '.'.
C37_NulOutsideGrid == \A cell \in DOMAIN context.grid : context.grid[cell] # NUL

\* C39 as stated: no operator symbol with a '#' to its left on its row is
\* evaluated, in either pass, whatever lies left of or above the '#'.
C39_AsStated ==
    [][(InPass /\ EvaluatedHere # "none" /\ Here # "#")
          => \A k \in 0 .. col - 1 : Context_read(context, row, k) # "#"]_vars

\* C39: when a '#' has been evaluated in a tick, no cell from that '#' up to
\* and including the next '#' on its row, or up to the end of the row when
\* there is none, is evaluated later in that tick, in either pass.
C39_CommentNotEvaluated ==
    [][(InPass /\ EvaluatedHere # "none")
          => \A i \in DOMAIN evaluated :
                (/\ Context_read(context, evaluated[i][2], evaluated[i][3]) = "#"
                 /\ evaluated[i][2] = row
                 /\ evaluated[i][3] <= col)
                   => col > comment_end(context, row, evaluated[i][3])]_vars

\* the '#' at (1,1) was evaluated, the East inside the comment was not and
\* the East behind the closing '#' was
C39_Witness ==
    /\ pc = "tick_end"
    /\ context.ticks = 0
    /\ context.grid[<<1, 1>>] = "#"
    /\ context.grid[<<1, 2>>] = "E"
    /\ context.grid[<<1, 3>>] = "#"
    /\ EvaluatedIn(1, 1, 1)
    /\ ~EvaluatedIn(1, 1, 2)
    /\ EvaluatedIn(1, 1, 4)

\* the operands of the MIDI CC operator of the scenario
ControlChannel == Value(init_grid[<<1, 2>>])
Controller == Value(init_grid[<<1, 3>>])
ControlValue == Value(init_grid[<<1, 4>>])

\* C38: for a MIDI CC note with channel ch, controller k and raw value v the
\* CC sink sends the single message (0xB0 + ch, k, value) and no other
\* message, and every status byte it computes for the note fits in 8 bits.
C38_SingleControlChange ==
    (midi_cc_sink.received = 1 /\ Len(midi_cc_channel[1]) = 1) =>
       /\ midi_cc_sink.pc # "panicked"
       /\ midi_cc_sink.conn =
             << <<176 + ControlChannel, Controller, scale_exponential(ControlValue)>> >>
       /\ \A i \in DOMAIN midi_cc_sink.handled :
             /\ InU8(NOTE_OFF_MESSAGE + midi_cc_sink.handled[i].channel)
             /\ InU8(NOTE_ON_MESSAGE + midi_cc_sink.handled[i].channel)

\* C40: in every run, also after the state went Running -> Paused -> Running,
\* the evaluator has run at most one tick per tick_duration of time spent
\* Running, the first tick being due at once: no ticks are run back-to-back
\* to catch up for the time spent Paused.
C40_OneTickPerDuration ==
    context.tempo = DefaultTempo =>
       (context.ticks - 1) * tick_duration(context) <= time.running

====
